---- MODULE Spec2Model ----
(***************************************************************************)
(* Model of the search subsystem of ScholarSynth AI: SearchService         *)
(* (searchNotes, regenerateEmbeddings, the lexical matcher, the two        *)
(* caches, the auxiliary views), the parts of StorageService and AIService *)
(* it calls, and the session (chrome.storage.local userAuth) that          *)
(* getAllNotes filters by.                                                 *)
(*                                                                         *)
(* Strings are sequences of one-character strings.  A JS number that is a  *)
(* similarity is kept exactly as the fraction n/d of its signed square     *)
(* (d = 0 is NaN), so that ordering and the 0.1 threshold are decided as   *)
(* the code decides them, without floating point.                          *)
(***************************************************************************)
EXTENDS Integers, Sequences, FiniteSets, TLC

(***************************************************************************)
(* Characters and strings                                                  *)
(***************************************************************************)
Lowers == <<"a","b","c","d","e","f","g","h","i","j","k","l","m",
            "n","o","p","q","r","s","t","u","v","w","x","y","z">>
Uppers == <<"A","B","C","D","E","F","G","H","I","J","K","L","M",
            "N","O","P","Q","R","S","T","U","V","W","X","Y","Z">>

IndexIn(c, s) == IF \E i \in 1..Len(s) : s[i] = c
                 THEN CHOOSE i \in 1..Len(s) : s[i] = c
                 ELSE 0

IsLowerCh(c) == IndexIn(c, Lowers) > 0
IsUpperCh(c) == IndexIn(c, Uppers) > 0
IsDigitCh(c) == c \in {"0","1","2","3","4","5","6","7","8","9"}

\* regex class \s (the model's whitespace is the blank)
IsSpaceCh(c) == c = " "
\* regex class \w
IsWordCh(c) == IsLowerCh(c) \/ IsUpperCh(c) \/ IsDigitCh(c) \/ c = "_"

\* String.prototype.charCodeAt for the characters of the model
charCodeAt(c) ==
    IF IsLowerCh(c) THEN 96 + IndexIn(c, Lowers)
    ELSE IF IsUpperCh(c) THEN 64 + IndexIn(c, Uppers)
    ELSE IF c = " " THEN 32
    ELSE IF c = "_" THEN 95
    ELSE IF c = "!" THEN 33
    ELSE 63

LowerCh(c) == IF IsUpperCh(c) THEN Lowers[IndexIn(c, Uppers)] ELSE c

\* String.prototype.toLowerCase
toLowerCase(s) == [i \in 1..Len(s) |-> LowerCh(s[i])]

\* s.replace(/[^\w]/g, '')
StripNonWord(s) == SelectSeq(s, IsWordCh)

\* s.replace(/[^\w\s]/g, ' ')
BlankNonWord(s) ==
    [i \in 1..Len(s) |-> IF IsWordCh(s[i]) \/ IsSpaceCh(s[i]) THEN s[i] ELSE " "]

\* String.prototype.split(/\s+/): the pieces between maximal whitespace runs;
\* a leading or trailing run leaves an empty first or last piece, and the
\* empty string splits into one empty piece.
RECURSIVE SplitFrom(_, _, _)
SplitFrom(s, i, cur) ==
    IF i > Len(s) THEN <<cur>>
    ELSE IF IsSpaceCh(s[i])
         THEN IF i > 1 /\ IsSpaceCh(s[i-1])
              THEN SplitFrom(s, i + 1, cur)
              ELSE <<cur>> \o SplitFrom(s, i + 1, <<>>)
         ELSE SplitFrom(s, i + 1, Append(cur, s[i]))

splitWhitespace(s) == SplitFrom(s, 1, <<>>)

\* String.prototype.includes
includes(text, word) ==
    \E i \in 0..(Len(text) - Len(word)) :
        \A k \in 1..Len(word) : text[i + k] = word[k]

\* Array.prototype.join(' ')
RECURSIVE joinBlank(_)
joinBlank(parts) ==
    IF parts = <<>> THEN <<>>
    ELSE IF Len(parts) = 1 THEN parts[1]
    ELSE parts[1] \o <<" ">> \o joinBlank(Tail(parts))

Min2(a, b) == IF a <= b THEN a ELSE b
Min3(a, b, c) == Min2(a, Min2(b, c))

\* SearchService.levenshteinDistance: the dynamic-programming table,
\* entry (j, i) for the first i characters of str1 and j of str2.
RECURSIVE LevCell(_, _, _, _)
LevCell(str1, str2, j, i) ==
    IF j = 0 THEN i
    ELSE IF i = 0 THEN j
    ELSE Min3(LevCell(str1, str2, j, i - 1) + 1,
              LevCell(str1, str2, j - 1, i) + 1,
              LevCell(str1, str2, j - 1, i - 1)
                 + (IF str1[i] = str2[j] THEN 0 ELSE 1))

levenshteinDistance(str1, str2) == LevCell(str1, str2, Len(str2), Len(str1))

(***************************************************************************)
(* Similarity values: the fraction n/d of the signed square of the number  *)
(***************************************************************************)
NaN == [n |-> 0, d |-> 0]
IsNaN(x) == x.d = 0

\* x > 0.1
AboveFloor(x) == x.d > 0 /\ x.n > 0 /\ 100 * x.n > x.d

\* b.similarity - a.similarity > 0: b sorts before a
Greater(b, a) == b.d > 0 /\ a.d > 0 /\ b.n * a.d > a.n * b.d

\* x >= y as numbers (false when either is NaN)
GreaterEq(x, y) == x.d > 0 /\ y.d > 0 /\ x.n * y.d >= y.n * x.d

(***************************************************************************)
(* The lexical matcher                                                     *)
(***************************************************************************)
stopWords == { <<"t","h","e">>, <<"a","n","d">>, <<"o","r">>, <<"b","u","t">>,
               <<"i","n">>, <<"o","n">>, <<"a","t">>, <<"t","o">>,
               <<"f","o","r">>, <<"o","f">>, <<"w","i","t","h">>, <<"b","y">>,
               <<"i","s">>, <<"a","r","e">>, <<"w","a","s">>,
               <<"w","e","r","e">> }

KeepQueryWord(word) == Len(word) > 2 /\ word \notin stopWords

CleanQueryWord(word) == toLowerCase(StripNonWord(word))

\* SearchService.preprocessQuery: split, filter, then strip and lowercase
preprocessQuery(query) ==
    LET words == SelectSeq(splitWhitespace(query), KeepQueryWord)
    IN  [i \in 1..Len(words) |-> CleanQueryWord(words[i])]

\* SearchService.preprocessText
preprocessText(text) == BlankNonWord(toLowerCase(text))

\* SearchService.findSimilarWords
findSimilarWords(word, text) ==
    LET textWords == splitWhitespace(text)
    IN  Cardinality({ k \in 1..Len(textWords) :
                        levenshteinDistance(word, textWords[k]) <= 2 })

\* twice the score one query word adds (1, or 0.5 per similar word)
WordScore2(word, searchText) ==
    IF includes(searchText, word) THEN 2
    ELSE findSimilarWords(word, searchText)

RECURSIVE TotalScore2(_, _)
TotalScore2(queryWords, searchText) ==
    IF queryWords = <<>> THEN 0
    ELSE WordScore2(Head(queryWords), searchText)
         + TotalScore2(Tail(queryWords), searchText)

\* a calculateTextSimilarity that gives 0 for an empty word list
calculateTextSimilarity_zeroWhenEmpty(queryWords, searchText) ==
    LET t2 == TotalScore2(queryWords, searchText)
        m2 == 2 * Len(queryWords)
    IN  IF m2 = 0 THEN [n |-> 0, d |-> 1] ELSE [n |-> t2 * t2, d |-> m2 * m2]

\* SearchService.calculateTextSimilarity: totalScore / maxPossibleScore,
\* 0/0 = NaN for an empty word list
calculateTextSimilarity(queryWords, searchText) ==
    LET t2 == TotalScore2(queryWords, searchText)
        m2 == 2 * Len(queryWords)
    IN  IF m2 = 0 THEN NaN ELSE [n |-> t2 * t2, d |-> m2 * m2]

(***************************************************************************)
(* Embedding vectors.  A vector is its length, its non-zero components     *)
(* (position :> value, positions from 0) and whether its components are    *)
(* NaN.  localEmbedding divides by the magnitude; the model keeps the      *)
(* undivided counts, which have the same cosine, and marks the 0/0 case.   *)
(***************************************************************************)
EMBEDDING_DIM == 128
\* the length of the vectors stored by an earlier embedding scheme
LegacyLen == EMBEDDING_DIM \div 2

Vec(len, nz) == [len |-> len, nz |-> nz, nan |-> FALSE]

RECURSIVE SumSq(_)
SumSq(f) ==
    IF DOMAIN f = {} THEN 0
    ELSE LET p == CHOOSE q \in DOMAIN f : TRUE
         IN  f[p] * f[p] + SumSq([q \in DOMAIN f \ {p} |-> f[q]])

RECURSIVE DotOver(_, _, _)
DotOver(S, f, g) ==
    IF S = {} THEN 0
    ELSE LET p == CHOOSE q \in S : TRUE
         IN  f[p] * g[p] + DotOver(S \ {p}, f, g)

\* a cosine similarity without the test of the lengths
CosineThrows_never(vecA, vecB) == FALSE

CosineThrows(vecA, vecB) == vecA.len # vecB.len

\* SearchService.optimizedCosineSimilarity for vectors of equal length
optimizedCosineSimilarity(vecA, vecB) ==
    LET dotProduct == DotOver(DOMAIN vecA.nz \cap DOMAIN vecB.nz, vecA.nz, vecB.nz)
        normA == SumSq(vecA.nz)
        normB == SumSq(vecB.nz)
    IN  IF (~vecA.nan /\ normA = 0) \/ (~vecB.nan /\ normB = 0)
        THEN [n |-> 0, d |-> 1]
        ELSE IF vecA.nan \/ vecB.nan THEN NaN
        ELSE [n |-> (IF dotProduct < 0 THEN 0 - 1 ELSE 1) * dotProduct * dotProduct,
              d |-> normA * normB]

\* AIService.simpleHash; the words of the model are short enough for the
\* value to stay inside 32 bits, where (hash & hash) and Math.abs change
\* nothing
RECURSIVE HashFrom(_, _)
HashFrom(str, hash) ==
    IF str = <<>> THEN hash
    ELSE HashFrom(Tail(str), (hash * 32 - hash) + charCodeAt(Head(str)))

simpleHash(str) == HashFrom(str, 0)

LongWord(word) == Len(word) > 2

\* AIService.localEmbedding
localEmbedding(text) ==
    LET words == SelectSeq(splitWhitespace(toLowerCase(text)), LongWord)
        wordsArray == { words[i] : i \in 1..Len(words) }
        wordFreq(w) == Cardinality({ i \in 1..Len(words) : words[i] = w })
        positions == { simpleHash(w) % EMBEDDING_DIM : w \in wordsArray }
        embedding == [p \in positions |->
                        LET here == { w \in wordsArray : simpleHash(w) % EMBEDDING_DIM = p }
                            RECURSIVE Add(_)
                            Add(S) == IF S = {} THEN 0
                                      ELSE LET w == CHOOSE v \in S : TRUE
                                           IN  wordFreq(w) + Add(S \ {w})
                        IN  Add(here)]
    IN  [len |-> EMBEDDING_DIM, nz |-> embedding, nan |-> (positions = {})]

\* What the embedding endpoint may answer: no answer (network, key or
\* quota error), a vector of another length, or a vector of 128 numbers.
ApiVectors == { Vec(EMBEDDING_DIM, (0 :> 1)) }
LegacyVector == Vec(LegacyLen, (0 :> 1))
ApiFail == [ok |-> FALSE]
ProviderResponses ==
    {ApiFail} \cup { [ok |-> TRUE, values |-> v] : v \in ApiVectors \cup {LegacyVector} }

(***************************************************************************)
(* The corpus the model runs on                                            *)
(***************************************************************************)
Users == {"u1", "u2"}
NoUser == "none"

W_cat == <<"c","a","t">>
W_dog == <<"d","o","g">>
W_cat_dog == W_cat \o <<" ">> \o W_dog

\* the notes that exist in the IndexedDB 'notes' store, in key order;
\* createdAt counts days, rating 0 is a note that was never rated
NoteOrder == <<"n1", "n2", "n3">>
NoteIds == {"n1", "n2", "n3"}

Note(id) ==
    IF id = "n1"
    THEN [id |-> "n1", userId |-> "u1", title |-> W_dog, content |-> W_dog,
          summary |-> <<>>, tags |-> <<>>, project |-> "p1",
          createdAt |-> 1, rating |-> 0]
    ELSE IF id = "n2"
    THEN [id |-> "n2", userId |-> "u1", title |-> W_cat, content |-> W_cat_dog,
          summary |-> <<>>, tags |-> <<W_cat>>, project |-> "p1",
          createdAt |-> 2, rating |-> 4]
    ELSE [id |-> "n3", userId |-> "u2", title |-> W_cat, content |-> W_cat_dog,
          summary |-> <<>>, tags |-> <<>>, project |-> "p1",
          createdAt |-> 3, rating |-> 5]

Queries == { <<"C","a","t"," ","d","o","g">> }
\* the limits callers ask for
MaxLimit == 2
Limits == 1..MaxLimit

\* the texts the model embeds, and localEmbedding on them, computed once
Texts == Queries \cup { Note(id).content : id \in NoteIds }
localEmbeddingOf == [t \in Texts |-> localEmbedding(t)]

\* a generateEmbedding that gives an empty vector when the request fails
generateEmbedding_empty(text, response) ==
    IF response.ok /\ response.values.len = EMBEDDING_DIM
    THEN response.values
    ELSE Vec(0, <<>>)

\* AIService.generateEmbedding: the endpoint's vector when it has 128
\* values, the local embedding otherwise and on every error
generateEmbedding(text, response) ==
    IF response.ok /\ response.values.len = EMBEDDING_DIM
    THEN response.values
    ELSE localEmbeddingOf[text]

\* the vectors the model meets, and optimizedCosineSimilarity on them,
\* computed once and looked up for vectors of equal length
Vectors == ApiVectors \cup {LegacyVector} \cup { localEmbeddingOf[t] : t \in Texts }
cosineOf == [vecA \in Vectors, vecB \in Vectors |-> optimizedCosineSimilarity(vecA, vecB)]

\* preprocessQuery and calculateTextSimilarity on the queries and notes of
\* the model, computed once
queryWordsOf == [q \in Queries |-> preprocessQuery(toLowerCase(q))]

Missing == [has |-> FALSE]
Some(v) == [has |-> TRUE, val |-> v]

(***************************************************************************)
(* State                                                                   *)
(***************************************************************************)
\* the invocation slots, and the one used when callers make one searchNotes
\* invocation at a time
Calls == {"search", "overlapping"}
OneAtATime == {"search"}
\* the counters of repairs and of requests to the endpoint stop counting here
MaxRepairs == 2
MaxProviderCalls == 1
\* how many searchNotes invocations callers make in a run
MaxSearches == 2
\* how many events of the environment (login, logout, deleted note, change
\* of the database's condition, passing of time) happen in a run
MaxEvents == 1

VARIABLES
    userAuth,          \* chrome.storage.local userAuth: the signed-in user id
    storage,           \* the condition of the IndexedDB database
    db,                \* StorageService.db is open
    noteStore,         \* ids of the records of the 'notes' object store
    embStore,          \* the 'embeddings' object store: note id -> record
    embeddingCache,    \* SearchService.embeddingCache
    searchCache,       \* SearchService.searchCache
    lastCacheCleanup,  \* SearchService.lastCacheCleanup
    now,               \* Date.now()
    call,              \* the searchNotes invocations in flight
    previous,          \* the last invocation that returned, as its caller saw it
    searches,          \* how many invocations callers have made
    events,            \* the session, corpus, storage and clock events so far
    answered,          \* the embedding endpoint has answered a request
    view,              \* the invocation in flight of getAllNotes or of a view
    ui,                \* the Search component: its state and its handleSearch calls
    storedAt,          \* when each entry of the Result Cache was stored
    pure,              \* a private method of SearchService applied to inputs
    msg,               \* the sendRuntimeMessage invocation in flight
    auth               \* AuthDatabase: its loginAttempts store and login calls

vars == <<userAuth, storage, db, noteStore, embStore, embeddingCache, searchCache,
          lastCacheCleanup, now, call, previous, searches, events, answered, view, ui, storedAt, pure,
          msg, auth>>

CACHE_DURATION == 5 * 60 * 1000

\* a key that leaves the limit out
CacheKey_withoutLimit(query, limit) == <<toLowerCase(query), 1>>

\* `${query.toLowerCase()}_${limit}`
CacheKey(query, limit) == <<toLowerCase(query), limit>>
\* `embedding_${text.toLowerCase()}`
EmbeddingKey(text) == toLowerCase(text)

CacheKeys == { CacheKey(q, l) : q \in Queries, l \in Limits }
EmbeddingKeys == { EmbeddingKey(q) : q \in Queries }

IdleCall == [pc |-> "idle", phase |-> "none", query |-> <<>>, limit |-> 0,
             queryEmbedding |-> Missing, currentUser |-> NoUser,
             notes |-> <<>>, pending |-> <<>>, newEmbedding |-> Missing,
             result |-> <<>>, threw |-> FALSE, exit |-> "none",
             repairs |-> 0, providerCalls |-> 0,
             caller |-> NoUser, at |-> 0, swept |-> FALSE,
             legacy |-> FALSE, before |-> Missing, providerFailed |-> FALSE,
             age |-> 0]

IdleView == [pc |-> "idle", op |-> "none",
             tags |-> <<>>, projectId |-> "", startDate |-> 0, endDate |-> 0,
             noteId |-> "", limit |-> 0, minRating |-> 0,
             currentUser |-> NoUser, notes |-> <<>>, targetEmbedding |-> Missing,
             result |-> <<>>, threw |-> FALSE,
             caller |-> NoUser, at |-> 0, settledAs |-> NoUser]

\* no private method is being applied
IdlePure == [op |-> "none", query |-> <<>>, limit |-> 0, records |-> <<>>,
             threw |-> FALSE, result |-> <<>>, words |-> <<>>,
             text |-> <<>>, score |-> [n |-> 0, d |-> 1], kept |-> FALSE,
             vecA |-> Vec(0, <<>>), vecB |-> Vec(0, <<>>)]

\* what chrome.runtime.sendMessage resolves with: undefined, an object
\* without an error field, or an object whose error field is the string
\* given (the characters of the message; <<>> is the empty string)
NoResponse == [defined |-> FALSE, hasError |-> FALSE, error |-> <<>>]
PlainResponse == [defined |-> TRUE, hasError |-> FALSE, error |-> <<>>]
ErrorResponse(error) == [defined |-> TRUE, hasError |-> TRUE, error |-> error]

\* sendRuntimeMessage(message, retries = 3)
DefaultRetries == 3

\* no sendRuntimeMessage is in flight
IdleMessage == [pc |-> "idle", retries |-> 0, attempt |-> 0, delay |-> 80,
                attempts |-> 0, response |-> NoResponse,
                lastError |-> <<>>, thrown |-> <<>>, invalidated |-> FALSE]

\* AuthDatabase
MAX_LOGIN_ATTEMPTS == 5
LOCKOUT_DURATION == 15 * 60 * 1000

\* the emails logins are tried for, as login has trimmed and lowercased
\* them; the users store has an active account for the first only
Emails == {"ada@example.org", "nobody@example.org"}
Registered == {"ada@example.org"}
Passwords == {"Correct1horse", "Wrong2horse"}
passwordOf == [e \in Registered |-> "Correct1horse"]

\* hashPassword: SHA-256 of the password and the salt, taken as injective
hashPassword(password) == <<"SHA-256", password, "scholar_synth_ai_salt_2024">>

\* the login calls that can be in flight together
Logins == {"l1", "l2"}

\* how many logins are made, and how many times the clock is advanced
MaxLogins == 6
MaxTicks == 2

\* no record of the loginAttempts store for an email
NoAttempts == [has |-> FALSE, attempts |-> 0, timestamp |-> 0]

\* no login in flight; locked is whether the email was locked out when
\* checkLoginAttempts read its record, lockedAtSuccess whether it was when
\* the successful login cleared it, verified whether the password was compared
IdleLogin == [pc |-> "idle", email |-> "", password |-> "", code |-> "none",
              success |-> FALSE, locked |-> FALSE, lockedAtSuccess |-> FALSE,
              verified |-> FALSE]

\* the loginAttempts store is empty and no login is in flight
InitialAuth ==
    [attempts |-> [e \in Emails |-> NoAttempts],
     login |-> [l \in Logins |-> IdleLogin],
     started |-> 0, ticks |-> 0]

\* the handleSearch invocations the Search component can have in flight
Handlers == {"h1", "h2"}
NoError == "null"
TimeoutError == "Search timeout - please try again"

IdleSearch == [pc |-> "idle", query |-> <<>>]

\* useState('') / useState([]) / useState(false) / useState(null); writer is
\* the handleSearch invocation that set the state last, newest the one
\* started last, and shown tells whose outcome the results displayed are:
\* of no search yet, of the search started last, or of an older one
InitialSearchView ==
    [results |-> <<>>, loading |-> FALSE, error |-> NoError, writer |-> "none",
     newest |-> "none", shown |-> "none",
     search |-> [h \in Handlers |-> IdleSearch]]

\* embedding records the stores start with: none, legacy vectors of
\* another length, vectors made by generateEmbedding when the notes were
\* saved, a mixture, or a record for the note of one user only
InitialEmbeddings ==
    { [id \in NoteIds |-> Missing],
      [id \in NoteIds |-> Some(LegacyVector)],
      [id \in NoteIds |-> Some(localEmbeddingOf[Note(id).content])],
      [id \in NoteIds |-> IF id = "n1" THEN Some(LegacyVector)
                          ELSE Some(localEmbeddingOf[Note(id).content])],
      [id \in NoteIds |-> IF id = "n3" THEN Some(localEmbeddingOf[Note(id).content])
                          ELSE Missing] }

Init ==
    /\ userAuth \in Users \cup {NoUser}
    /\ storage = "up"
    /\ answered = FALSE
    /\ view = IdleView
    /\ ui = InitialSearchView
    /\ pure = IdlePure
    /\ msg = IdleMessage
    /\ auth = InitialAuth
    /\ db = FALSE
    /\ noteStore = NoteIds
    /\ embStore \in InitialEmbeddings
    /\ embeddingCache = [k \in EmbeddingKeys |-> Missing]
    /\ searchCache = [k \in CacheKeys |-> Missing]
    /\ storedAt = [k \in CacheKeys |-> 0]
    /\ lastCacheCleanup = 0
    /\ now = 0
    /\ call = [c \in Calls |-> IdleCall]
    /\ previous = Missing
    /\ searches = 0
    /\ events = <<>>

(***************************************************************************)
(* Pure parts of searchNotes                                               *)
(***************************************************************************)
SearchResult(id, similarity) ==
    [note |-> [id |-> id, userId |-> Note(id).userId], similarity |-> similarity]

\* results.sort((a, b) => b.similarity - a.similarity): stable, descending
RECURSIVE InsertBySimilarity(_, _)
InsertBySimilarity(x, sorted) ==
    IF sorted = <<>> THEN <<x>>
    ELSE IF Greater(x.similarity, Head(sorted).similarity)
         THEN <<x>> \o sorted
         ELSE <<Head(sorted)>> \o InsertBySimilarity(x, Tail(sorted))

RECURSIVE SortInto(_, _)
SortInto(rest, sorted) ==
    IF rest = <<>> THEN sorted
    ELSE SortInto(Tail(rest), InsertBySimilarity(Head(rest), sorted))

\* a ranking that leaves the results in note order
sortBySimilarity_unsorted(results) == results

sortBySimilarity(results) == SortInto(results, <<>>)

\* .slice(0, limit)
sliceTo(results, limit) == SubSeq(results, 1, Min2(limit, Len(results)))

\* the ranking both paths end with
rankResults(results, limit) == sliceTo(sortBySimilarity(results), limit)

\* the filter of StorageService.getAllNotes over the records read
userNotes(ids, userId) ==
    SelectSeq(NoteOrder, LAMBDA id : id \in ids /\ Note(id).userId = userId)

\* the scoring loop of searchNotes: the results pushed, in note order
RECURSIVE scoreNotes(_, _, _)
scoreNotes(notes, queryEmbedding, embeddings) ==
    IF notes = <<>> THEN <<>>
    ELSE LET id == Head(notes)
             rest == scoreNotes(Tail(notes), queryEmbedding, embeddings)
         IN  IF ~embeddings[id].has THEN rest
             ELSE IF queryEmbedding.len # embeddings[id].val.len THEN rest
             ELSE LET similarity ==
                          cosineOf[queryEmbedding, embeddings[id].val]
                  IN  IF AboveFloor(similarity)
                      THEN <<SearchResult(id, similarity)>> \o rest
                      ELSE rest

\* a vectorMismatchDetected that is never set
vectorMismatch_never(notes, queryEmbedding, embeddings) == FALSE

\* vectorMismatchDetected after the loop
vectorMismatch(notes, queryEmbedding, embeddings) ==
    \E i \in 1..Len(notes) :
        /\ embeddings[notes[i]].has
        /\ queryEmbedding.len # embeddings[notes[i]].val.len

\* a scoring pass that compares at least one note and finds the stored
\* vector of every note it compares of another length than the query's
onlyMismatches(notes, queryEmbedding, embeddings) ==
    /\ \E i \in 1..Len(notes) : embeddings[notes[i]].has
    /\ \A i \in 1..Len(notes) :
          embeddings[notes[i]].has =>
              queryEmbedding.len # embeddings[notes[i]].val.len

\* the text optimizedTextBasedSearch scores a note on
noteSearchText(note) ==
    preprocessText(note.title \o <<" ">> \o note.content \o <<" ">>
                   \o note.summary \o <<" ">> \o joinBlank(note.tags))

\* the score of every note for every query, computed once
textSimilarityOf ==
    [q \in Queries, id \in NoteIds |->
        calculateTextSimilarity(queryWordsOf[q], noteSearchText(Note(id)))]

RECURSIVE textMatches(_, _)
textMatches(notes, query) ==
    IF notes = <<>> THEN <<>>
    ELSE LET id == Head(notes)
             score == textSimilarityOf[query, id]
             rest == textMatches(Tail(notes), query)
         IN  IF AboveFloor(score) THEN <<SearchResult(id, score)>> \o rest ELSE rest

\* SearchService.optimizedTextBasedSearch, given the notes getAllNotes gave
optimizedTextBasedSearch(query, limit, notes) ==
    rankResults(textMatches(notes, query), limit)

(***************************************************************************)
(* searchNotes, one action per stretch of code between two awaits.         *)
(* call[c].pc is the await the invocation is suspended at:                 *)
(*   "embed"   aiService.generateEmbedding(query)  (getCachedEmbedding)    *)
(*   "user"    getAllNotes: initDB / getCurrentUser                        *)
(*   "read"    getAllNotes: the notes transaction                          *)
(*   "embs"    storageService.getAllEmbeddings()                           *)
(*   "regen"   regenerateEmbeddings: generateEmbedding(note.content)       *)
(*   "save"    regenerateEmbeddings: saveEmbedding(note.id, newEmbedding)  *)
(*   "done"    the promise is settled (result or threw)                    *)
(* call[c].phase says which getAllNotes call is running: the one of the    *)
(* semantic pass ("sem"), of optimizedTextBasedSearch ("lex") or of        *)
(* regenerateEmbeddings ("repair").  call[c].exit is the return statement  *)
(* the invocation leaves by.  The remaining fields record what happened    *)
(* to the invocation: caller is the user signed in when it was made, at    *)
(* the number of events that had happened by then, swept that cleanupCache *)
(* emptied the caches in it, legacy that its first scoring pass met only   *)
(* stored vectors of another length, and before the invocation of the same *)
(* query and limit that returned just before this one was made.            *)
(***************************************************************************)
StorageConditions == {"up", "readonly", "down"}

\* whether a request that reads the database, or one that writes it, succeeds
readsSucceed == storage # "down"
writesSucceed == storage = "up"

Bump(n, max) == IF n < max THEN n + 1 ELSE max

Settle(r, result, exit) ==
    [r EXCEPT !.pc = "done", !.phase = "none", !.result = result, !.exit = exit,
              !.queryEmbedding = Missing, !.currentUser = NoUser,
              !.notes = <<>>, !.pending = <<>>, !.newEmbedding = Missing]

Reject(r) ==
    [Settle(r, <<>>, r.exit) EXCEPT !.threw = TRUE]

\* return this.optimizedTextBasedSearch(query, limit), up to its first await
StartTextSearch(r, exit) ==
    [r EXCEPT !.pc = "user", !.phase = "lex", !.exit = exit,
              !.queryEmbedding = Missing, !.currentUser = NoUser,
              !.notes = <<>>, !.pending = <<>>, !.newEmbedding = Missing]

\* the invocation goes on without touching the caches
Continue(c, r) ==
    /\ call' = [call EXCEPT ![c] = r]
    /\ UNCHANGED <<embeddingCache, searchCache, storedAt, lastCacheCleanup>>

\* a cleanupCache that clears when CACHE_DURATION has elapsed exactly
Enter_cleanupAtDuration(c, r) ==
    LET expired == now - lastCacheCleanup >= CACHE_DURATION
        eCache == IF expired THEN [k \in EmbeddingKeys |-> Missing] ELSE embeddingCache
        sCache == IF expired THEN [k \in CacheKeys |-> Missing] ELSE searchCache
        cachedResults == sCache[CacheKey(r.query, r.limit)]
        cached == eCache[EmbeddingKey(r.query)]
        fresh == [r EXCEPT !.currentUser = NoUser, !.notes = <<>>,
                           !.pending = <<>>, !.newEmbedding = Missing,
                           !.queryEmbedding = Missing, !.providerFailed = FALSE,
                           !.swept = (r.swept \/ expired)]
    IN  /\ lastCacheCleanup' = IF expired THEN now ELSE lastCacheCleanup
        /\ embeddingCache' = eCache
        /\ searchCache' = sCache
        /\ storedAt' = IF expired THEN [k \in CacheKeys |-> 0] ELSE storedAt
        /\ call' = [call EXCEPT ![c] =
              IF cachedResults.has
              THEN [Settle(fresh, cachedResults.val, "cache") EXCEPT
                        !.age = now - storedAt[CacheKey(r.query, r.limit)]]
              ELSE IF cached.has
                   THEN [fresh EXCEPT !.pc = "user", !.phase = "sem",
                                      !.queryEmbedding = cached]
                   ELSE [fresh EXCEPT !.pc = "embed", !.phase = "sem"]]

\* searchNotes from its first line to its first await: cleanupCache, the
\* Result Cache lookup, and the Embedding Cache lookup of getCachedEmbedding
Enter(c, r) ==
    LET expired == now - lastCacheCleanup > CACHE_DURATION
        eCache == IF expired THEN [k \in EmbeddingKeys |-> Missing] ELSE embeddingCache
        sCache == IF expired THEN [k \in CacheKeys |-> Missing] ELSE searchCache
        cachedResults == sCache[CacheKey(r.query, r.limit)]
        cached == eCache[EmbeddingKey(r.query)]
        fresh == [r EXCEPT !.currentUser = NoUser, !.notes = <<>>,
                           !.pending = <<>>, !.newEmbedding = Missing,
                           !.queryEmbedding = Missing, !.providerFailed = FALSE,
                           !.swept = (r.swept \/ expired)]
    IN  /\ lastCacheCleanup' = IF expired THEN now ELSE lastCacheCleanup
        /\ embeddingCache' = eCache
        /\ searchCache' = sCache
        /\ storedAt' = IF expired THEN [k \in CacheKeys |-> 0] ELSE storedAt
        /\ call' = [call EXCEPT ![c] =
              IF cachedResults.has
              THEN [Settle(fresh, cachedResults.val, "cache") EXCEPT
                        !.age = now - storedAt[CacheKey(r.query, r.limit)]]
              ELSE IF cached.has
                   THEN [fresh EXCEPT !.pc = "user", !.phase = "sem",
                                      !.queryEmbedding = cached]
                   ELSE [fresh EXCEPT !.pc = "embed", !.phase = "sem"]]

\* a searchNotes that does not call cleanupCache before it looks at the
\* Result Cache
SearchNotes_withoutCleanup(c, query, limit) ==
    /\ call[c].pc = "idle"
    /\ searches < MaxSearches
    /\ searches' = searches + 1
    /\ LET fresh == [IdleCall EXCEPT
                        !.query = query, !.limit = limit, !.caller = userAuth,
                        !.at = Len(events),
                        !.before = IF /\ previous.has
                                      /\ previous.val.query = query
                                      /\ previous.val.limit = limit
                                   THEN previous ELSE Missing]
           cachedResults == searchCache[CacheKey(query, limit)]
           cached == embeddingCache[EmbeddingKey(query)]
       IN  /\ UNCHANGED <<lastCacheCleanup, embeddingCache, searchCache, storedAt>>
           /\ call' = [call EXCEPT ![c] =
                 IF cachedResults.has
                 THEN [Settle(fresh, cachedResults.val, "cache") EXCEPT
                           !.age = now - storedAt[CacheKey(query, limit)]]
                 ELSE IF cached.has
                      THEN [fresh EXCEPT !.pc = "user", !.phase = "sem",
                                         !.queryEmbedding = cached]
                      ELSE [fresh EXCEPT !.pc = "embed", !.phase = "sem"]]
    /\ previous' = Missing
    /\ UNCHANGED <<msg, auth, pure, ui, view, answered, userAuth, storage, db, noteStore, embStore, now, events>>

\* a caller invokes searchNotes(query, limit)
SearchNotes(c, query, limit) ==
    /\ call[c].pc = "idle"
    /\ searches < MaxSearches
    /\ searches' = searches + 1
    /\ Enter(c, [IdleCall EXCEPT
                    !.query = query, !.limit = limit, !.caller = userAuth,
                    !.at = Len(events),
                    !.before = IF /\ previous.has
                                  /\ previous.val.query = query
                                  /\ previous.val.limit = limit
                               THEN previous ELSE Missing])
    /\ previous' = Missing
    /\ UNCHANGED <<msg, auth, pure, ui, view, answered, userAuth, storage, db, noteStore, embStore, now, events>>

\* a getCachedEmbedding that does not keep the embedding
QueryEmbedded_uncached(c) ==
    /\ call[c].pc = "embed"
    /\ \E response \in ProviderResponses :
         LET r == call[c]
             embedding == generateEmbedding(r.query, response)
         IN  /\ answered' = (answered \/ response.ok)
             /\ call' = [call EXCEPT ![c] =
                    [r EXCEPT !.pc = "user", !.phase = "sem",
                              !.queryEmbedding = Some(embedding),
                              !.providerCalls = Bump(r.providerCalls, MaxProviderCalls)]]
    /\ UNCHANGED <<msg, auth, pure, ui, view, userAuth, storage, db, noteStore, embStore, embeddingCache, searchCache, storedAt,
                   lastCacheCleanup, now, previous, searches, events>>

\* getCachedEmbedding after the await of generateEmbedding(text)
QueryEmbedded(c) ==
    /\ call[c].pc = "embed"
    /\ \E response \in ProviderResponses :
         LET r == call[c]
             embedding == generateEmbedding(r.query, response)
         IN  /\ embeddingCache' =
                    [embeddingCache EXCEPT ![EmbeddingKey(r.query)] = Some(embedding)]
             /\ answered' = (answered \/ response.ok)
             /\ call' = [call EXCEPT ![c] =
                    [r EXCEPT !.pc = "user", !.phase = "sem",
                              !.queryEmbedding = Some(embedding),
                              !.providerCalls = Bump(r.providerCalls, MaxProviderCalls)]]
    /\ UNCHANGED <<msg, auth, pure, ui, view, userAuth, storage, db, noteStore, embStore, searchCache, storedAt,
                   lastCacheCleanup, now, previous, searches, events>>

\* a text search that stores its result in the Result Cache
NotesResolved_cachingLexical(c, r, notes) ==
    IF r.phase = "sem"
    THEN Continue(c, [r EXCEPT !.pc = "embs", !.notes = notes, !.currentUser = NoUser])
    ELSE IF r.phase = "lex"
    THEN LET result == optimizedTextBasedSearch(r.query, r.limit, notes)
         IN  /\ searchCache' =
                    [searchCache EXCEPT ![CacheKey(r.query, r.limit)] = Some(result)]
             /\ storedAt' = [storedAt EXCEPT ![CacheKey(r.query, r.limit)] = now]
             /\ call' = [call EXCEPT ![c] = Settle(r, result, r.exit)]
             /\ UNCHANGED <<embeddingCache, lastCacheCleanup>>
    ELSE IF notes = <<>>
         THEN Enter(c, r)
         ELSE Continue(c, [r EXCEPT !.pc = "regen", !.pending = notes,
                                    !.currentUser = NoUser])

\* what the caller of getAllNotes does with the notes it resolves to
NotesResolved(c, r, notes) ==
    IF r.phase = "sem"
    THEN Continue(c, [r EXCEPT !.pc = "embs", !.notes = notes, !.currentUser = NoUser])
    ELSE IF r.phase = "lex"
    THEN Continue(c, Settle(r, optimizedTextBasedSearch(r.query, r.limit, notes), r.exit))
    ELSE IF notes = <<>>
         THEN Enter(c, r)
         ELSE Continue(c, [r EXCEPT !.pc = "regen", !.pending = notes,
                                    !.currentUser = NoUser])

\* ... and with its rejection: the catch of searchNotes starts the text
\* search, the text search lets it through, regenerateEmbeddings logs it
\* and returns, after which searchNotes calls itself
NotesRejected(c, r) ==
    IF r.phase = "sem"
    THEN Continue(c, StartTextSearch(r, "catch"))
    ELSE IF r.phase = "lex"
    THEN Continue(c, Reject(r))
    ELSE Enter(c, r)

\* getAllNotes: initDB when the database is not open, then getCurrentUser
GetCurrentUser(c) ==
    /\ call[c].pc = "user"
    /\ LET r == call[c]
           opened == db \/ readsSucceed
           currentUser == userAuth
       IN  /\ db' = opened
           /\ IF ~opened THEN NotesRejected(c, r)
              ELSE IF currentUser = NoUser THEN NotesResolved(c, r, <<>>)
              ELSE Continue(c, [r EXCEPT !.pc = "read", !.currentUser = currentUser])
    /\ UNCHANGED <<msg, auth, pure, ui, view, answered, userAuth, storage, noteStore, embStore, now, previous, searches, events>>

\* getAllNotes: the request of the notes transaction succeeds or fails
ReadNotes(c) ==
    /\ call[c].pc = "read"
    /\ LET r == call[c]
           ok == readsSucceed
       IN  IF ok THEN NotesResolved(c, r, userNotes(noteStore, r.currentUser))
           ELSE NotesRejected(c, r)
    /\ UNCHANGED <<msg, auth, pure, ui, view, answered, userAuth, storage, db, noteStore, embStore, now, previous, searches, events>>

\* a searchNotes that scores the notes whether or not a record is stored
GetAllEmbeddings_withoutEmptyCheck(c) ==
    /\ call[c].pc = "embs"
    /\ LET ok == readsSucceed
           r0 == call[c]
           r == IF ok /\ r0.repairs = 0
                THEN [r0 EXCEPT !.legacy =
                        onlyMismatches(r0.notes, r0.queryEmbedding.val, embStore)]
                ELSE r0
           results == scoreNotes(r.notes, r.queryEmbedding.val, embStore)
           vectorMismatchDetected == vectorMismatch(r.notes, r.queryEmbedding.val, embStore)
           finalResults == rankResults(results, r.limit)
       IN  IF ~ok
           THEN Continue(c, StartTextSearch(r, "catch"))
           ELSE IF vectorMismatchDetected /\ results = <<>>
           THEN Continue(c, [r EXCEPT !.pc = "user", !.phase = "repair",
                                      !.notes = <<>>,
                                      !.repairs = Bump(r.repairs, MaxRepairs)])
           ELSE /\ searchCache' =
                      [searchCache EXCEPT ![CacheKey(r.query, r.limit)] = Some(finalResults)]
                /\ storedAt' = [storedAt EXCEPT ![CacheKey(r.query, r.limit)] = now]
                /\ call' = [call EXCEPT ![c] = Settle(r, finalResults, "ranked")]
                /\ UNCHANGED <<embeddingCache, lastCacheCleanup>>
    /\ UNCHANGED <<msg, auth, pure, ui, view, answered, userAuth, storage, db, noteStore, embStore, now, previous, searches, events>>

\* searchNotes after the await of getAllEmbeddings, down to its return or
\* to the first await of regenerateEmbeddings
GetAllEmbeddings(c) ==
    /\ call[c].pc = "embs"
    /\ LET ok == readsSucceed
           r0 == call[c]
           r == IF ok /\ r0.repairs = 0
                THEN [r0 EXCEPT !.legacy =
                        onlyMismatches(r0.notes, r0.queryEmbedding.val, embStore)]
                ELSE r0
           results == scoreNotes(r.notes, r.queryEmbedding.val, embStore)
           vectorMismatchDetected == vectorMismatch(r.notes, r.queryEmbedding.val, embStore)
           finalResults == rankResults(results, r.limit)
       IN  IF ~ok
           THEN Continue(c, StartTextSearch(r, "catch"))
           ELSE IF \A id \in NoteIds : ~embStore[id].has
           THEN Continue(c, StartTextSearch(r, "noEmbeddings"))
           ELSE IF vectorMismatchDetected /\ results = <<>>
           THEN Continue(c, [r EXCEPT !.pc = "user", !.phase = "repair",
                                      !.notes = <<>>,
                                      !.repairs = Bump(r.repairs, MaxRepairs)])
           ELSE /\ searchCache' =
                      [searchCache EXCEPT ![CacheKey(r.query, r.limit)] = Some(finalResults)]
                /\ storedAt' = [storedAt EXCEPT ![CacheKey(r.query, r.limit)] = now]
                /\ call' = [call EXCEPT ![c] = Settle(r, finalResults, "ranked")]
                /\ UNCHANGED <<embeddingCache, lastCacheCleanup>>
    /\ UNCHANGED <<msg, auth, pure, ui, view, answered, userAuth, storage, db, noteStore, embStore, now, previous, searches, events>>

\* regenerateEmbeddings after the await of generateEmbedding(note.content)
NoteEmbedded(c) ==
    /\ call[c].pc = "regen"
    /\ \E response \in ProviderResponses :
         LET r == call[c]
             newEmbedding == generateEmbedding(Note(Head(r.pending)).content, response)
         IN  /\ answered' = (answered \/ response.ok)
             /\ call' = [call EXCEPT ![c] =
                    [r EXCEPT !.pc = "save", !.newEmbedding = Some(newEmbedding),
                              !.providerFailed = ~response.ok,
                              !.providerCalls = Bump(r.providerCalls, MaxProviderCalls)]]
    /\ UNCHANGED <<msg, auth, pure, ui, view, userAuth, storage, db, noteStore, embStore, embeddingCache, searchCache, storedAt,
                   lastCacheCleanup, now, previous, searches, events>>

\* a regenerateEmbeddings whose loop has no try of its own: the first
\* failed save ends it
SaveEmbedding_stopsOnFailure(c) ==
    /\ call[c].pc = "save"
    /\ LET ok == writesSucceed
           r == call[c]
           id == Head(r.pending)
           rest == Tail(r.pending)
       IN  /\ embStore' = IF ok THEN [embStore EXCEPT ![id] = r.newEmbedding]
                          ELSE embStore
           /\ IF rest = <<>> \/ ~ok
              THEN Enter(c, r)
              ELSE Continue(c, [r EXCEPT !.pc = "regen", !.pending = rest,
                                         !.newEmbedding = Missing,
                                         !.providerFailed = FALSE])
    /\ UNCHANGED <<msg, auth, pure, ui, view, answered, userAuth, storage, db, noteStore, now, previous, searches, events>>

\* regenerateEmbeddings after the await of saveEmbedding, which put the
\* record or failed; after the last note searchNotes calls itself
SaveEmbedding(c) ==
    /\ call[c].pc = "save"
    /\ LET ok == writesSucceed
           r == call[c]
           id == Head(r.pending)
           rest == Tail(r.pending)
       IN  /\ embStore' = IF ok THEN [embStore EXCEPT ![id] = r.newEmbedding]
                          ELSE embStore
           /\ IF rest = <<>>
              THEN Enter(c, r)
              ELSE Continue(c, [r EXCEPT !.pc = "regen", !.pending = rest,
                                         !.newEmbedding = Missing,
                                         !.providerFailed = FALSE])
    /\ UNCHANGED <<msg, auth, pure, ui, view, answered, userAuth, storage, db, noteStore, now, previous, searches, events>>

\* the caller takes the settled promise
Return(c) ==
    /\ call[c].pc = "done"
    /\ call' = [call EXCEPT ![c] = IdleCall]
    /\ previous' = Some([query |-> call[c].query, limit |-> call[c].limit,
                          result |-> call[c].result, threw |-> call[c].threw,
                          at |-> call[c].at])
    /\ UNCHANGED <<msg, auth, pure, ui, view, answered, userAuth, storage, db, noteStore, embStore, embeddingCache, searchCache, storedAt,
                   lastCacheCleanup, now, searches, events>>

(***************************************************************************)
(* StorageService.getAllNotes called on its own (the GET_NOTES message)    *)
(* and the auxiliary views of SearchService, one action per stretch of     *)
(* code between two awaits.  view.pc is the await the invocation is        *)
(* suspended at:                                                           *)
(*   "user"       getAllNotes: initDB / getCurrentUser                     *)
(*   "read"       getAllNotes: the notes transaction                       *)
(*   "project"    getNotesByProject                                        *)
(*   "target"     getRelatedNotes: getNote(noteId)                         *)
(*   "targetEmb"  getRelatedNotes: getEmbedding(noteId)                    *)
(*   "embs"       getRelatedNotes: getAllEmbeddings()                      *)
(* A returned note is recorded by its id and userId.  view.caller and      *)
(* view.at are as for searchNotes; view.settledAs is the user signed in    *)
(* when the promise settled.                                               *)
(***************************************************************************)
NoteRef(id) == [id |-> id, userId |-> Note(id).userId]

noteRefs(ids) == [i \in 1..Len(ids) |-> NoteRef(ids[i])]

\* searchByTags: the notes with a tag that contains one of the tags asked
\* for, both in lower case
searchByTags(notes, tags) ==
    SelectSeq(notes, LAMBDA id :
        \E i \in 1..Len(tags), j \in 1..Len(Note(id).tags) :
            includes(toLowerCase(Note(id).tags[j]), toLowerCase(tags[i])))

\* searchByDateRange
searchByDateRange(notes, startDate, endDate) ==
    SelectSeq(notes, LAMBDA id :
        Note(id).createdAt >= startDate /\ Note(id).createdAt <= endDate)

\* getNotesByRating: note.rating && note.rating >= minRating
getNotesByRating(notes, minRating) ==
    SelectSeq(notes, LAMBDA id :
        Note(id).rating # 0 /\ Note(id).rating >= minRating)

\* getRecentNotes: newest first, the first limit of them
RECURSIVE InsertByDate(_, _)
InsertByDate(id, sorted) ==
    IF sorted = <<>> THEN <<id>>
    ELSE IF Note(id).createdAt > Note(Head(sorted)).createdAt
         THEN <<id>> \o sorted
         ELSE <<Head(sorted)>> \o InsertByDate(id, Tail(sorted))

RECURSIVE SortByDate(_, _)
SortByDate(rest, sorted) ==
    IF rest = <<>> THEN sorted
    ELSE SortByDate(Tail(rest), InsertByDate(Head(rest), sorted))

getRecentNotes(notes, limit) == sliceTo(SortByDate(notes, <<>>), limit)

\* getPopularTopics: the tags of the notes in order of first appearance,
\* each with the number of times it appears, most frequent first
RECURSIVE allTags(_)
allTags(notes) ==
    IF notes = <<>> THEN <<>>
    ELSE Note(Head(notes)).tags \o allTags(Tail(notes))

RECURSIVE firstAppearances(_, _)
firstAppearances(tags, seen) ==
    IF tags = <<>> THEN <<>>
    ELSE IF Head(tags) \in seen THEN firstAppearances(Tail(tags), seen)
    ELSE <<Head(tags)>> \o firstAppearances(Tail(tags), seen \cup {Head(tags)})

RECURSIVE InsertByCount(_, _)
InsertByCount(x, sorted) ==
    IF sorted = <<>> THEN <<x>>
    ELSE IF x.count > Head(sorted).count
         THEN <<x>> \o sorted
         ELSE <<Head(sorted)>> \o InsertByCount(x, Tail(sorted))

RECURSIVE SortByCount(_, _)
SortByCount(rest, sorted) ==
    IF rest = <<>> THEN sorted
    ELSE SortByCount(Tail(rest), InsertByCount(Head(rest), sorted))

getPopularTopics(notes, limit) ==
    LET tags == allTags(notes)
        topics == firstAppearances(tags, {})
        topicCount(t) == Cardinality({ i \in 1..Len(tags) : tags[i] = t })
        entries == [i \in 1..Len(topics) |->
                       [topic |-> topics[i], count |-> topicCount(topics[i])]]
    IN  sliceTo(SortByCount(entries, <<>>), limit)

\* getRelatedNotes: the loop over the notes meets a stored vector of
\* another length than the target's, and optimizedCosineSimilarity throws
relatedThrows(notes, noteId, targetEmbedding, embeddings) ==
    \E i \in 1..Len(notes) :
        /\ notes[i] # noteId
        /\ embeddings[notes[i]].has
        /\ CosineThrows(targetEmbedding, embeddings[notes[i]].val)

\* getRelatedNotes: the results pushed, in note order
RECURSIVE relatedResults(_, _, _, _)
relatedResults(notes, noteId, targetEmbedding, embeddings) ==
    IF notes = <<>> THEN <<>>
    ELSE LET id == Head(notes)
             rest == relatedResults(Tail(notes), noteId, targetEmbedding, embeddings)
         IN  IF id = noteId \/ ~embeddings[id].has THEN rest
             ELSE <<SearchResult(id, cosineOf[targetEmbedding, embeddings[id].val])>>
                      \o rest

\* the views that start with getAllNotes and compute on what it gives
viewOf(v, notes) ==
    IF v.op = "getAllNotes" THEN noteRefs(notes)
    ELSE IF v.op = "searchByTags" THEN noteRefs(searchByTags(notes, v.tags))
    ELSE IF v.op = "searchByDateRange"
         THEN noteRefs(searchByDateRange(notes, v.startDate, v.endDate))
    ELSE IF v.op = "getNotesByRating" THEN noteRefs(getNotesByRating(notes, v.minRating))
    ELSE IF v.op = "getRecentNotes" THEN noteRefs(getRecentNotes(notes, v.limit))
    ELSE getPopularTopics(notes, v.limit)

\* the calls the model makes
ViewCalls ==
    { [IdleView EXCEPT !.op = "getAllNotes"],
      [IdleView EXCEPT !.op = "searchByTags", !.tags = <<<<"C", "A">>>>],
      [IdleView EXCEPT !.op = "searchByProject", !.projectId = "p1"],
      [IdleView EXCEPT !.op = "searchByDateRange", !.startDate = 2, !.endDate = 3],
      [IdleView EXCEPT !.op = "getNotesByRating", !.minRating = 4],
      [IdleView EXCEPT !.op = "getPopularTopics", !.limit = 1] }
    \cup { [IdleView EXCEPT !.op = "getRecentNotes", !.limit = l] : l \in Limits }
    \cup { [IdleView EXCEPT !.op = "getRelatedNotes", !.noteId = id, !.limit = l] :
              id \in NoteIds, l \in Limits }

SettleView(v, result) ==
    [IdleView EXCEPT !.pc = "done", !.op = v.op, !.noteId = v.noteId,
                     !.limit = v.limit, !.result = result,
                     !.caller = v.caller, !.at = v.at, !.settledAs = userAuth]

\* a getRelatedNotes without its try and catch
RejectView_uncaught(v) ==
    [SettleView(v, <<>>) EXCEPT !.threw = TRUE]

\* a storage request of the view rejects: getRelatedNotes catches the error
\* and returns [], the other views let it through
RejectView(v) ==
    IF v.op = "getRelatedNotes" THEN SettleView(v, <<>>)
    ELSE [SettleView(v, <<>>) EXCEPT !.threw = TRUE]

\* a caller invokes getAllNotes or a view
CallView(input) ==
    /\ view.pc = "idle"
    /\ view' = [input EXCEPT !.pc = IF input.op = "searchByProject" THEN "project"
                                    ELSE IF input.op = "getRelatedNotes" THEN "target"
                                    ELSE "user",
                             !.caller = userAuth, !.at = Len(events)]
    /\ UNCHANGED <<msg, auth, pure, ui, userAuth, storage, db, noteStore, embStore, embeddingCache, searchCache, storedAt,
                   lastCacheCleanup, now, call, previous, searches, events, answered>>

\* getAllNotes: initDB when the database is not open, then getCurrentUser
ViewGetCurrentUser ==
    /\ view.pc = "user"
    /\ LET opened == db \/ readsSucceed
           currentUser == userAuth
       IN  /\ db' = opened
           /\ view' = IF ~opened THEN RejectView(view)
                      ELSE IF currentUser = NoUser
                      THEN IF view.op = "getRelatedNotes"
                           THEN [view EXCEPT !.pc = "embs", !.notes = <<>>]
                           ELSE SettleView(view, viewOf(view, <<>>))
                      ELSE [view EXCEPT !.pc = "read", !.currentUser = currentUser]
    /\ UNCHANGED <<msg, auth, pure, ui, userAuth, storage, noteStore, embStore, embeddingCache, searchCache, storedAt,
                   lastCacheCleanup, now, call, previous, searches, events, answered>>

\* getAllNotes: the request of the notes transaction succeeds or fails
ViewReadNotes ==
    /\ view.pc = "read"
    /\ LET notes == userNotes(noteStore, view.currentUser)
       IN  view' = IF ~readsSucceed THEN RejectView(view)
                   ELSE IF view.op = "getRelatedNotes"
                   THEN [view EXCEPT !.pc = "embs", !.notes = notes,
                                     !.currentUser = NoUser]
                   ELSE SettleView(view, viewOf(view, notes))
    /\ UNCHANGED <<msg, auth, pure, ui, userAuth, storage, db, noteStore, embStore, embeddingCache, searchCache, storedAt,
                   lastCacheCleanup, now, call, previous, searches, events, answered>>

\* StorageService.getNotesByProject: every record of the project index
getNotesByProject(ids, projectId) ==
    SelectSeq(NoteOrder, LAMBDA id : id \in ids /\ Note(id).project = projectId)

\* searchByProject: initDB when the database is not open, then the request
\* on the project index
ViewGetNotesByProject ==
    /\ view.pc = "project"
    /\ LET opened == db \/ readsSucceed
       IN  /\ db' = opened
           /\ view' = IF ~opened \/ ~readsSucceed THEN RejectView(view)
                      ELSE SettleView(view,
                               noteRefs(getNotesByProject(noteStore, view.projectId)))
    /\ UNCHANGED <<msg, auth, pure, ui, userAuth, storage, noteStore, embStore, embeddingCache, searchCache, storedAt,
                   lastCacheCleanup, now, call, previous, searches, events, answered>>

\* getRelatedNotes after the await of getNote(noteId)
ViewGetNote ==
    /\ view.pc = "target"
    /\ LET opened == db \/ readsSucceed
       IN  /\ db' = opened
           /\ view' = IF ~opened \/ ~readsSucceed THEN RejectView(view)
                      ELSE IF view.noteId \notin noteStore THEN SettleView(view, <<>>)
                      ELSE [view EXCEPT !.pc = "targetEmb"]
    /\ UNCHANGED <<msg, auth, pure, ui, userAuth, storage, noteStore, embStore, embeddingCache, searchCache, storedAt,
                   lastCacheCleanup, now, call, previous, searches, events, answered>>

\* getRelatedNotes after the await of getEmbedding(noteId)
ViewGetEmbedding ==
    /\ view.pc = "targetEmb"
    /\ view' = IF ~readsSucceed THEN RejectView(view)
               ELSE IF ~embStore[view.noteId].has THEN SettleView(view, <<>>)
               ELSE [view EXCEPT !.pc = "user",
                                 !.targetEmbedding = embStore[view.noteId]]
    /\ UNCHANGED <<msg, auth, pure, ui, userAuth, storage, db, noteStore, embStore, embeddingCache, searchCache, storedAt,
                   lastCacheCleanup, now, call, previous, searches, events, answered>>

\* getRelatedNotes after the await of getAllEmbeddings, down to its return
ViewGetAllEmbeddings ==
    /\ view.pc = "embs"
    /\ LET targetEmbedding == view.targetEmbedding.val
       IN  view' = IF ~readsSucceed THEN RejectView(view)
                   ELSE IF relatedThrows(view.notes, view.noteId, targetEmbedding, embStore)
                   THEN RejectView(view)
                   ELSE SettleView(view,
                            rankResults(relatedResults(view.notes, view.noteId,
                                                       targetEmbedding, embStore),
                                        view.limit))
    /\ UNCHANGED <<msg, auth, pure, ui, userAuth, storage, db, noteStore, embStore, embeddingCache, searchCache, storedAt,
                   lastCacheCleanup, now, call, previous, searches, events, answered>>

\* the caller takes the settled promise
ViewReturn ==
    /\ view.pc = "done"
    /\ view' = IdleView
    /\ UNCHANGED <<msg, auth, pure, ui, userAuth, storage, db, noteStore, embStore, embeddingCache, searchCache, storedAt,
                   lastCacheCleanup, now, call, previous, searches, events, answered>>

(***************************************************************************)
(* The Search component: handleSearch races the SEARCH_NOTES message       *)
(* against a timer of 15 seconds.  ui.search[h].pc is where the invocation *)
(* h stands:                                                               *)
(*   "racing"    awaiting Promise.race([searchPromise, timeoutPromise])    *)
(*   "settled"   the response came first; the timer is still to fire       *)
(*   "timedOut"  the timer fired first; the response is still to come      *)
(*   "late"      the response came after the timer had fired               *)
(***************************************************************************)
\* what chrome.runtime.sendMessage can settle with: the handler's
\* { results }, its { error }, a response with neither, or a rejection
SearchResponses ==
    { [kind |-> "results", results |-> <<>>, error |-> NoError],
      [kind |-> "results",
       results |-> <<SearchResult("n2", [n |-> 1, d |-> 1])>>, error |-> NoError],
      [kind |-> "error", results |-> <<>>, error |-> "Search failed"],
      [kind |-> "neither", results |-> <<>>, error |-> NoError],
      [kind |-> "rejected", results |-> <<>>,
       error |-> "Could not establish connection"] }

\* handleSearch up to its await: setLoading(true), setError(null), the
\* timer is set and the message sent
HandleSearch(h, query) ==
    /\ ui.search[h].pc = "idle"
    /\ ui' = [ui EXCEPT !.loading = TRUE, !.error = NoError, !.writer = h,
                        !.newest = h,
                        !.shown = IF ui.shown = "none" THEN "none" ELSE "older",
                        !.search[h] = [pc |-> "racing", query |-> query]]
    /\ UNCHANGED <<msg, auth, pure, userAuth, storage, db, noteStore, embStore, embeddingCache, searchCache, storedAt,
                   lastCacheCleanup, now, call, previous, searches, events, answered, view>>

\* whose outcome handleSearch invocation h puts on display: nothing in
\* handleSearch tells whether a newer search was started since
outcomeOf(h) == IF ui.newest = h THEN "newest" ELSE "older"

\* handleSearch after the await when the response settles the race
applyResponse(h, response) ==
    IF response.kind = "error" \/ response.kind = "rejected"
    THEN [ui EXCEPT !.error = response.error, !.results = <<>>, !.loading = FALSE,
                    !.writer = h, !.shown = outcomeOf(h),
                    !.search[h].pc = "settled"]
    ELSE [ui EXCEPT !.results = response.results, !.loading = FALSE,
                    !.writer = h, !.shown = outcomeOf(h),
                    !.search[h].pc = "settled"]

\* a handleSearch that awaits the message after the timeout too
ResponseArrives_unraced(h, response) ==
    /\ ui.search[h].pc \in {"racing", "timedOut"}
    /\ ui' = IF ui.search[h].pc = "racing"
             THEN applyResponse(h, response)
             ELSE [applyResponse(h, response) EXCEPT !.search[h].pc = "late"]
    /\ UNCHANGED <<msg, auth, pure, userAuth, storage, db, noteStore, embStore, embeddingCache, searchCache, storedAt,
                   lastCacheCleanup, now, call, previous, searches, events, answered, view>>

\* the SEARCH_NOTES message settles: it wins the race, or the race is over
\* and nothing awaits it
ResponseArrives(h, response) ==
    /\ ui.search[h].pc \in {"racing", "timedOut"}
    /\ ui' = IF ui.search[h].pc = "racing"
             THEN applyResponse(h, response)
             ELSE [ui EXCEPT !.search[h].pc = "late"]
    /\ UNCHANGED <<msg, auth, pure, userAuth, storage, db, noteStore, embStore, embeddingCache, searchCache, storedAt,
                   lastCacheCleanup, now, call, previous, searches, events, answered, view>>

\* the timer of 15 seconds fires: it rejects the race (the catch and the
\* finally of handleSearch run), or the race is over and the invocation ends
TimerFires(h) ==
    /\ ui.search[h].pc \in {"racing", "settled"}
    /\ ui' = IF ui.search[h].pc = "racing"
             THEN [ui EXCEPT !.error = TimeoutError, !.results = <<>>,
                             !.loading = FALSE, !.writer = h,
                             !.shown = outcomeOf(h),
                             !.search[h].pc = "timedOut"]
             ELSE [ui EXCEPT !.search[h] = IdleSearch]
    /\ UNCHANGED <<msg, auth, pure, userAuth, storage, db, noteStore, embStore, embeddingCache, searchCache, storedAt,
                   lastCacheCleanup, now, call, previous, searches, events, answered, view>>

\* nothing of the invocation is left
SearchForgotten(h) ==
    /\ ui.search[h].pc = "late"
    /\ ui' = [ui EXCEPT !.search[h] = IdleSearch]
    /\ UNCHANGED <<msg, auth, pure, userAuth, storage, db, noteStore, embStore, embeddingCache, searchCache, storedAt,
                   lastCacheCleanup, now, call, previous, searches, events, answered, view>>

(***************************************************************************)
(* sendRuntimeMessage: one action per stretch between two awaits.          *)
(* msg.pc is where the invocation is:                                      *)
(*   "attempt"   at the top of the loop body, before the runtime check     *)
(*   "backoff"   awaiting the setTimeout of the delay                      *)
(*   "returned"  resolved with msg.response                                *)
(*   "threw"     rejected with msg.thrown                                  *)
(***************************************************************************)
\* the messages of the errors, as the characters they are made of
RuntimeUnavailable ==
    <<"E", "x", "t", "e", "n", "s", "i", "o", "n", " ", "r", "u", "n", "t",
      "i", "m", "e", " ", "n", "o", "t", " ", "a", "v", "a", "i", "l", "a",
      "b", "l", "e">>
ContextInvalidated ==
    <<"E", "x", "t", "e", "n", "s", "i", "o", "n", " ", "c", "o", "n", "t",
      "e", "x", "t", " ", "i", "n", "v", "a", "l", "i", "d", "a", "t", "e",
      "d", ".">>
NoConnection ==
    <<"C", "o", "u", "l", "d", " ", "n", "o", "t", " ", "e", "s", "t", "a",
      "b", "l", "i", "s", "h", " ", "c", "o", "n", "n", "e", "c", "t", "i",
      "o", "n", ".", " ", "R", "e", "c", "e", "i", "v", "i", "n", "g", " ",
      "e", "n", "d", " ", "d", "o", "e", "s", " ", "n", "o", "t", " ", "e",
      "x", "i", "s", "t", ".">>
UnknownMessageType ==
    <<"U", "n", "k", "n", "o", "w", "n", " ", "m", "e", "s", "s", "a", "g",
      "e", " ", "t", "y", "p", "e">>

\* the phrases the catch block looks for
InvalidatedPhrase ==
    <<"E", "x", "t", "e", "n", "s", "i", "o", "n", " ", "c", "o", "n", "t",
      "e", "x", "t", " ", "i", "n", "v", "a", "l", "i", "d", "a", "t", "e",
      "d">>
NoConnectionPhrase ==
    <<"C", "o", "u", "l", "d", " ", "n", "o", "t", " ", "e", "s", "t", "a",
      "b", "l", "i", "s", "h", " ", "c", "o", "n", "n", "e", "c", "t", "i",
      "o", "n">>
NoReceiverPhrase ==
    <<"R", "e", "c", "e", "i", "v", "i", "n", "g", " ", "e", "n", "d", " ",
      "d", "o", "e", "s", " ", "n", "o", "t", " ", "e", "x", "i", "s", "t">>

\* what one pass of the loop body can meet: chrome.runtime.id is missing,
\* sendMessage rejects (with one of Chrome's messages, or with a value
\* that has no message), or sendMessage resolves
AttemptOutcomes ==
    { [kind |-> "unavailable", message |-> RuntimeUnavailable, response |-> NoResponse] }
    \cup { [kind |-> "rejected", message |-> m, response |-> NoResponse] :
              m \in {ContextInvalidated, NoConnection, <<>>} }
    \cup { [kind |-> "response", message |-> <<>>, response |-> r] :
              r \in {NoResponse, PlainResponse, ErrorResponse(UnknownMessageType),
                     ErrorResponse(<<>>)} }

\* the try block throws: the runtime check, a rejection, or
\* `response && response.error` (an empty string is falsy)
attemptThrows(outcome) ==
    \/ outcome.kind \in {"unavailable", "rejected"}
    \/ /\ outcome.response.defined
       /\ outcome.response.hasError
       /\ outcome.response.error # <<>>

\* error?.message || '' of what the try block threw
thrownMessage(outcome) ==
    IF outcome.kind = "response" THEN outcome.response.error ELSE outcome.message

\* sendRuntimeMessage(message, retries) up to the first pass of the loop
SendRuntimeMessage(retries) ==
    /\ msg.pc = "idle"
    /\ msg' = [IdleMessage EXCEPT !.pc = "attempt", !.retries = retries]
    /\ UNCHANGED <<auth, pure, userAuth, storage, db, noteStore, embStore, embeddingCache,
                   searchCache, storedAt, lastCacheCleanup, now, call, previous,
                   searches, events, answered, view, ui>>

\* one pass of the loop body: the try block, and the catch block up to its
\* throw or its await
AttemptSettles(outcome) ==
    /\ msg.pc = "attempt"
    /\ msg' =
         IF ~attemptThrows(outcome)
         THEN [msg EXCEPT !.pc = "returned", !.attempts = @ + 1,
                          !.response = outcome.response]
         ELSE LET message == thrownMessage(outcome)
                  terminal == \/ msg.attempt = msg.retries
                              \/ includes(message, InvalidatedPhrase)
              IN  IF terminal
                  THEN [msg EXCEPT !.pc = "threw", !.attempts = @ + 1,
                                   !.lastError = message, !.thrown = message,
                                   !.invalidated =
                                       includes(message, InvalidatedPhrase)]
                  ELSE [msg EXCEPT !.pc = "backoff", !.attempts = @ + 1,
                                   !.lastError = message,
                                   !.delay =
                                       IF \/ includes(message, NoConnectionPhrase)
                                          \/ includes(message, NoReceiverPhrase)
                                       THEN @ + 120 ELSE @]
    /\ UNCHANGED <<auth, pure, userAuth, storage, db, noteStore, embStore, embeddingCache,
                   searchCache, storedAt, lastCacheCleanup, now, call, previous,
                   searches, events, answered, view, ui>>

\* the delay has passed: attempt++ and the next pass
BackoffElapsed ==
    /\ msg.pc = "backoff"
    /\ msg' = [msg EXCEPT !.pc = "attempt", !.attempt = @ + 1]
    /\ UNCHANGED <<auth, pure, userAuth, storage, db, noteStore, embStore, embeddingCache,
                   searchCache, storedAt, lastCacheCleanup, now, call, previous,
                   searches, events, answered, view, ui>>

\* the caller has taken the response or the error
MessageTaken ==
    /\ msg.pc \in {"returned", "threw"}
    /\ msg' = IdleMessage
    /\ UNCHANGED <<auth, pure, userAuth, storage, db, noteStore, embStore, embeddingCache,
                   searchCache, storedAt, lastCacheCleanup, now, call, previous,
                   searches, events, answered, view, ui>>

(***************************************************************************)
(* AuthDatabase.login, one action per stretch between two awaits.          *)
(* auth.login[l].pc is the await the call is suspended at:                 *)
(*   "check"    checkLoginAttempts(email)                                  *)
(*   "user"     getUserByEmail(email)                                      *)
(*   "hash"     hashPassword(password)                                     *)
(*   "record"   recordLoginAttempt(email, success)                         *)
(*   "session"  saveUser(user) and createSession(user)                     *)
(*   "done"     the promise is resolved with code and success              *)
(***************************************************************************)
\* the test of checkLoginAttempts on a record, at time t
lockedOut(record, t) ==
    /\ record.has
    /\ record.attempts >= MAX_LOGIN_ATTEMPTS
    /\ t - record.timestamp < LOCKOUT_DURATION

\* login(email, password) up to its first await
LoginStarts(l, email, password) ==
    /\ auth.login[l].pc = "idle"
    /\ auth.started < MaxLogins
    /\ auth' = [auth EXCEPT !.started = @ + 1,
                            !.login[l] = [IdleLogin EXCEPT !.pc = "check",
                                                           !.email = email,
                                                           !.password = password]]
    /\ UNCHANGED <<msg, pure, userAuth, storage, db, noteStore, embStore, embeddingCache,
                   searchCache, storedAt, lastCacheCleanup, now, call, previous,
                   searches, events, answered, view, ui>>

\* checkLoginAttempts resolves: request.onsuccess with the record as it is
\* now, or request.onerror, which allows the login
CheckResolves(l, readOk) ==
    LET L == auth.login[l]
        record == auth.attempts[L.email]
        allowed == ~readOk \/ ~lockedOut(record, now)
    IN  /\ L.pc = "check"
        /\ auth' = [auth EXCEPT !.login[l] =
                       IF allowed
                       THEN [L EXCEPT !.pc = "user", !.locked = lockedOut(record, now)]
                       ELSE [L EXCEPT !.pc = "done", !.code = "RATE_LIMITED",
                                      !.locked = TRUE]]
        /\ UNCHANGED <<msg, pure, userAuth, storage, db, noteStore, embStore, embeddingCache,
                       searchCache, storedAt, lastCacheCleanup, now, call, previous,
                       searches, events, answered, view, ui>>

\* getUserByEmail resolves
UserRead(l) ==
    LET L == auth.login[l]
    IN  /\ L.pc = "user"
        /\ auth' = [auth EXCEPT !.login[l] =
                       IF L.email \notin Registered
                       THEN [L EXCEPT !.pc = "record", !.code = "ACCOUNT_NOT_FOUND"]
                       ELSE [L EXCEPT !.pc = "hash"]]
        /\ UNCHANGED <<msg, pure, userAuth, storage, db, noteStore, embStore, embeddingCache,
                       searchCache, storedAt, lastCacheCleanup, now, call, previous,
                       searches, events, answered, view, ui>>

\* hashPassword resolves and the hashes are compared
PasswordHashed(l) ==
    LET L == auth.login[l]
    IN  /\ L.pc = "hash"
        /\ auth' = [auth EXCEPT !.login[l] =
                       IF hashPassword(passwordOf[L.email]) # hashPassword(L.password)
                       THEN [L EXCEPT !.pc = "record", !.verified = TRUE,
                                      !.code = "INCORRECT_PASSWORD"]
                       ELSE [L EXCEPT !.pc = "record", !.verified = TRUE,
                                      !.code = "none"]]
        /\ UNCHANGED <<msg, pure, userAuth, storage, db, noteStore, embStore, embeddingCache,
                       searchCache, storedAt, lastCacheCleanup, now, call, previous,
                       searches, events, answered, view, ui>>

\* the transaction of recordLoginAttempt: on success the record is
\* deleted, on failure its count is raised and its timestamp set; when the
\* read fails (getRequest.onerror) the store is left as it is
recordLoginAttempt(attempts, email, success, t, readOk) ==
    IF ~readOk THEN attempts
    ELSE IF success THEN [attempts EXCEPT ![email] = NoAttempts]
    ELSE [attempts EXCEPT ![email] = [has |-> TRUE, attempts |-> @.attempts + 1,
                                      timestamp |-> t]]

\* recordLoginAttempt resolves
AttemptRecorded(l, readOk) ==
    LET L == auth.login[l]
        success == L.code = "none"
    IN  /\ L.pc = "record"
        /\ auth' = [auth EXCEPT
                      !.attempts = recordLoginAttempt(@, L.email, success, now, readOk),
                      !.login[l] =
                          IF success
                          THEN [L EXCEPT !.pc = "session",
                                         !.lockedAtSuccess =
                                             lockedOut(auth.attempts[L.email], now)]
                          ELSE [L EXCEPT !.pc = "done"]]
        /\ UNCHANGED <<msg, pure, userAuth, storage, db, noteStore, embStore, embeddingCache,
                       searchCache, storedAt, lastCacheCleanup, now, call, previous,
                       searches, events, answered, view, ui>>

\* saveUser and createSession resolve: { success: true, user, session }
SessionCreated(l) ==
    /\ auth.login[l].pc = "session"
    /\ auth' = [auth EXCEPT !.login[l].pc = "done", !.login[l].success = TRUE]
    /\ UNCHANGED <<msg, pure, userAuth, storage, db, noteStore, embStore, embeddingCache,
                   searchCache, storedAt, lastCacheCleanup, now, call, previous,
                   searches, events, answered, view, ui>>

\* the caller has taken the AuthResult
LoginReturns(l) ==
    /\ auth.login[l].pc = "done"
    /\ auth' = [auth EXCEPT !.login[l] = IdleLogin]
    /\ UNCHANGED <<msg, pure, userAuth, storage, db, noteStore, embStore, embeddingCache,
                   searchCache, storedAt, lastCacheCleanup, now, call, previous,
                   searches, events, answered, view, ui>>

\* time passes: a millisecond, or a millisecond less than the lockout
TimePasses ==
    /\ auth.ticks < MaxTicks
    /\ \E step \in {1, LOCKOUT_DURATION - 1} : now' = now + step
    /\ auth' = [auth EXCEPT !.ticks = @ + 1]
    /\ UNCHANGED <<msg, pure, userAuth, storage, db, noteStore, embStore, embeddingCache,
                   searchCache, storedAt, lastCacheCleanup, call, previous,
                   searches, events, answered, view, ui>>

(***************************************************************************)
(* The private methods of SearchService applied to inputs of their own:    *)
(* pure holds the inputs and what the method returned or that it threw.    *)
(***************************************************************************)
\* a record of the notes store as getAllNotes gives it: the note, with its
\* tags field present or not
StoredRecord(id, hasTags) ==
    [note |-> id, tags |-> IF hasTags THEN Some(Note(id).tags) ELSE Missing]

\* the lists of records the scan is applied to: the notes of u1, each with
\* or without its tags field
RecordLists ==
    { <<StoredRecord("n1", a), StoredRecord("n2", b)>> : a \in BOOLEAN, b \in BOOLEAN }

\* note.tags.join(' ') on a record without tags is a TypeError
searchTextThrows(record) == ~record.tags.has

recordIds(records) == [i \in 1..Len(records) |-> records[i].note]

\* optimizedTextBasedSearch after the await of getAllNotes: the loop has no
\* try, so the first record whose text cannot be built ends the method
TextSearch(query, limit, records) ==
    /\ pure.op = "none"
    /\ pure' = [IdlePure EXCEPT
                  !.op = "optimizedTextBasedSearch",
                  !.query = query, !.limit = limit, !.records = records,
                  !.threw = \E i \in 1..Len(records) : searchTextThrows(records[i]),
                  !.result =
                      IF \E i \in 1..Len(records) : searchTextThrows(records[i])
                      THEN <<>>
                      ELSE optimizedTextBasedSearch(query, limit, recordIds(records))]
    /\ UNCHANGED <<msg, auth, userAuth, storage, db, noteStore, embStore, embeddingCache, searchCache,
                   storedAt, lastCacheCleanup, now, call, previous, searches, events,
                   answered, view, ui>>

\* the queries the methods are applied to: every string of these characters
\* up to this length
MaxQueryLen == 4
QueryAlphabet == {"t", "h", "e", ",", " "}
TypedQueries == UNION { [1..n -> QueryAlphabet] : n \in 0..MaxQueryLen }

\* the terms optimizedTextBasedSearch scores: preprocessQuery on the
\* lowercased query
PreprocessQuery(query) ==
    /\ pure.op = "none"
    /\ pure' = [IdlePure EXCEPT !.op = "preprocessQuery", !.query = query,
                                !.words = preprocessQuery(toLowerCase(query))]
    /\ UNCHANGED <<msg, auth, userAuth, storage, db, noteStore, embStore, embeddingCache, searchCache,
                   storedAt, lastCacheCleanup, now, call, previous, searches, events,
                   answered, view, ui>>

\* the documents a query is scored on: the texts of the notes, and a text
\* of words of the queries' characters
DocumentTexts ==
    { noteSearchText(Note(id)) : id \in NoteIds }
    \cup { preprocessText(<<"t","h","e",","," ","t","e","e"," ","h","e","t">>) }

\* a query of five terms, one of them a misspelling of a word of the notes
LongQueries ==
    { <<"d","i","g"," ","z","z","z","z"," ","z","z","z","z"," ",
        "z","z","z","z"," ","z","z","z","z">> }

\* one turn of the loop of optimizedTextBasedSearch: the score of a text
\* for the query, and whether the note is pushed to the results
ScoreDocument(query, searchText) ==
    /\ pure.op = "none"
    /\ LET queryWords == preprocessQuery(toLowerCase(query))
           score == calculateTextSimilarity(queryWords, searchText)
       IN  pure' = [IdlePure EXCEPT !.op = "calculateTextSimilarity",
                                   !.query = query, !.words = queryWords,
                                   !.text = searchText, !.score = score,
                                   !.kept = AboveFloor(score)]
    /\ UNCHANGED <<msg, auth, userAuth, storage, db, noteStore, embStore, embeddingCache, searchCache,
                   storedAt, lastCacheCleanup, now, call, previous, searches, events,
                   answered, view, ui>>

\* the vectors the cosine similarity is applied to: those the model meets,
\* and vectors of both lengths with every component 0
ComparedVectors == Vectors \cup {Vec(EMBEDDING_DIM, <<>>), Vec(LegacyLen, <<>>)}

\* optimizedCosineSimilarity(vecA, vecB): it throws or returns a number
CosineSimilarity(vecA, vecB) ==
    /\ pure.op = "none"
    /\ pure' = [IdlePure EXCEPT
                  !.op = "optimizedCosineSimilarity",
                  !.vecA = vecA, !.vecB = vecB,
                  !.threw = CosineThrows(vecA, vecB),
                  !.score = IF CosineThrows(vecA, vecB) THEN IdlePure.score
                            ELSE optimizedCosineSimilarity(vecA, vecB)]
    /\ UNCHANGED <<msg, auth, userAuth, storage, db, noteStore, embStore, embeddingCache, searchCache,
                   storedAt, lastCacheCleanup, now, call, previous, searches, events,
                   answered, view, ui>>

\* the caller has taken what the method gave
PureReturn ==
    /\ pure.op # "none"
    /\ pure' = IdlePure
    /\ UNCHANGED <<msg, auth, userAuth, storage, db, noteStore, embStore, embeddingCache, searchCache,
                   storedAt, lastCacheCleanup, now, call, previous, searches, events,
                   answered, view, ui>>

(***************************************************************************)
(* The environment: the session, the corpus and the clock                  *)
(***************************************************************************)
\* an event of the environment: "session" for a login or logout, "corpus"
\* for a deleted note, "clock" for time passing
Event(what) ==
    /\ Len(events) < MaxEvents
    /\ events' = Append(events, what)

\* the kinds of event that happened after the first k
EventsSince(k) == { events[i] : i \in (k + 1)..Len(events) }

\* AuthenticationService.createSession writes userAuth
Login(u) ==
    /\ userAuth # u
    /\ Event("session")
    /\ userAuth' = u
    /\ UNCHANGED <<msg, auth, pure, ui, view, answered, storage, db, noteStore, embStore, embeddingCache, searchCache, storedAt,
                   lastCacheCleanup, now, call, previous, searches>>

\* AuthenticationService.logout removes userAuth
Logout ==
    /\ userAuth # NoUser
    /\ Event("session")
    /\ userAuth' = NoUser
    /\ UNCHANGED <<msg, auth, pure, ui, view, answered, storage, db, noteStore, embStore, embeddingCache, searchCache, storedAt,
                   lastCacheCleanup, now, call, previous, searches>>

\* StorageService.deleteNote: the note's embedding record stays
DeleteNote(id) ==
    /\ id \in noteStore
    /\ Event("corpus")
    /\ noteStore' = noteStore \ {id}
    /\ UNCHANGED <<msg, auth, pure, ui, view, answered, userAuth, storage, db, embStore, embeddingCache, searchCache, storedAt,
                   lastCacheCleanup, now, call, previous, searches>>

\* the database changes condition: "up", "readonly" when its writes are
\* rejected, "down" when every request on it fails
StorageChange(condition) ==
    /\ storage # condition
    /\ Event("storage")
    /\ storage' = condition
    /\ UNCHANGED <<msg, auth, pure, ui, view, answered, userAuth, db, noteStore, embStore, embeddingCache, searchCache, storedAt,
                   lastCacheCleanup, now, call, previous, searches>>

\* time passes: the length of the cache window, or a millisecond more
Tick ==
    /\ Event("clock")
    /\ \E step \in {CACHE_DURATION, CACHE_DURATION + 1} :
         now' = now + step
    /\ UNCHANGED <<msg, auth, pure, ui, view, answered, userAuth, storage, db, noteStore, embStore, embeddingCache, searchCache, storedAt,
                   lastCacheCleanup, call, previous, searches>>

Next ==
    \/ \E c \in OneAtATime, q \in Queries, l \in Limits : SearchNotes(c, q, l)
    \/ \E c \in OneAtATime : QueryEmbedded(c)
    \/ \E c \in OneAtATime : GetCurrentUser(c)
    \/ \E c \in OneAtATime : ReadNotes(c)
    \/ \E c \in OneAtATime : GetAllEmbeddings(c)
    \/ \E c \in OneAtATime : NoteEmbedded(c)
    \/ \E c \in OneAtATime : SaveEmbedding(c)
    \/ \E c \in OneAtATime : Return(c)
    \/ \E u \in Users : Login(u)
    \/ Logout
    \/ \E id \in NoteIds : DeleteNote(id)
    \/ \E condition \in StorageConditions : StorageChange(condition)
    \/ Tick

Spec == Init /\ [][Next]_vars

\* getAllNotes and the views, with the session, the corpus and the database
\* changing around them
NextViews ==
    \/ \E input \in ViewCalls : CallView(input)
    \/ ViewGetCurrentUser
    \/ ViewReadNotes
    \/ ViewGetNotesByProject
    \/ ViewGetNote
    \/ ViewGetEmbedding
    \/ ViewGetAllEmbeddings
    \/ ViewReturn
    \/ \E u \in Users : Login(u)
    \/ Logout
    \/ \E id \in NoteIds : DeleteNote(id)
    \/ \E condition \in StorageConditions : StorageChange(condition)

SpecViews == Init /\ [][NextViews]_vars

\* searchNotes invocations that overlap, and the clock; every stored vector
\* has the length of the query's, so that no invocation starts the repair
NextOverlapping ==
    \/ \E c \in Calls, q \in Queries, l \in Limits : SearchNotes(c, q, l)
    \/ \E c \in Calls : QueryEmbedded(c)
    \/ \E c \in Calls : GetCurrentUser(c)
    \/ \E c \in Calls : ReadNotes(c)
    \/ \E c \in Calls : GetAllEmbeddings(c)
    \/ \E c \in Calls : Return(c)
    \/ Tick

\* ... for a signed-in user, every note with a record of the current length
InitOverlapping ==
    /\ Init
    /\ userAuth = "u1"
    /\ \A id \in NoteIds : embStore[id].has /\ embStore[id].val.len = EMBEDDING_DIM

SpecOverlapping == InitOverlapping /\ [][NextOverlapping]_vars

\* the private methods on their inputs
NextPure ==
    \/ \E q \in Queries, l \in Limits, records \in RecordLists : TextSearch(q, l, records)
    \/ \E q \in TypedQueries : PreprocessQuery(q)
    \/ \E q \in TypedQueries \cup LongQueries, text \in DocumentTexts :
          ScoreDocument(q, text)
    \/ \E vecA \in ComparedVectors, vecB \in ComparedVectors : CosineSimilarity(vecA, vecB)
    \/ PureReturn

InitPure ==
    /\ Init
    /\ userAuth = "u1"
    /\ \A id \in NoteIds : ~embStore[id].has

SpecPure == InitPure /\ [][NextPure]_vars

\* the numbers of retries callers pass: none, one, or the default
RetryChoices == {0, 1, DefaultRetries}

\* sendRuntimeMessage and what each of its attempts meets
NextMessaging ==
    \/ \E retries \in RetryChoices : SendRuntimeMessage(retries)
    \/ \E outcome \in AttemptOutcomes : AttemptSettles(outcome)
    \/ BackoffElapsed
    \/ MessageTaken

SpecMessaging == InitPure /\ [][NextMessaging]_vars

\* logins, two of which can be in flight together, and the clock
NextLogin ==
    \/ \E l \in Logins, email \in Emails, password \in Passwords :
          LoginStarts(l, email, password)
    \/ \E l \in Logins, readOk \in BOOLEAN : CheckResolves(l, readOk)
    \/ \E l \in Logins : UserRead(l)
    \/ \E l \in Logins : PasswordHashed(l)
    \/ \E l \in Logins, readOk \in BOOLEAN : AttemptRecorded(l, readOk)
    \/ \E l \in Logins : SessionCreated(l)
    \/ \E l \in Logins : LoginReturns(l)
    \/ TimePasses

SpecLogin == InitPure /\ [][NextLogin]_vars

\* the Search component and the messages it sends
NextSearchView ==
    \/ \E h \in Handlers, q \in Queries : HandleSearch(h, q)
    \/ \E h \in Handlers, response \in SearchResponses : ResponseArrives(h, response)
    \/ \E h \in Handlers : TimerFires(h)
    \/ \E h \in Handlers : SearchForgotten(h)

SpecSearchView == Init /\ [][NextSearchView]_vars

(***************************************************************************)
(* Properties of searchNotes                                               *)
(***************************************************************************)
\* the invocation has returned a list to its caller
Returned(c) == call[c].pc = "done" /\ ~call[c].threw

\* no login or logout happened while the invocation ran
SameSession(c) == "session" \notin EventsSince(call[c].at)

\* no request on the database has failed since the first k events
DatabaseUpSince(k) == storage = "up" /\ "storage" \notin EventsSince(k)

\* C1: every note in a list searchNotes returns, computed or taken from the
\* Result Cache, belongs to the user who was signed in when the call was
\* made (stated for the calls during which nobody logged in or out)
SearchReturnsOnlyCallersNotes ==
    \A c \in Calls :
        (Returned(c) /\ SameSession(c)) =>
            \A i \in 1..Len(call[c].result) :
                call[c].result[i].note.userId = call[c].caller

\* C2: one searchNotes invocation runs regenerateEmbeddings at most once,
\* whatever the retried scoring pass finds (stated for the invocations
\* during which nobody logged in or out)
RepairAtMostOnce ==
    \A c \in Calls : SameSession(c) => call[c].repairs <= 1

\* C7: a list searchNotes returns has at most limit elements, whichever
\* return statement it leaves by
ResultWithinLimit ==
    \A c \in Calls : Returned(c) => Len(call[c].result) <= call[c].limit

\* a ranking cut to limit 1 while the Result Cache holds the two results
\* ranked for the same query and limit 2
TruncatedResult ==
    \E c \in Calls :
        /\ Returned(c) /\ call[c].exit = "ranked" /\ call[c].limit = 1
        /\ Len(call[c].result) = 1
        /\ searchCache[CacheKey(call[c].query, 2)].has
        /\ Len(searchCache[CacheKey(call[c].query, 2)].val) = 2

\* C8: a list searchNotes returns is in non-increasing order of similarity
ResultsNonIncreasing ==
    \A c \in Calls :
        Returned(c) =>
            \A i \in 1..(Len(call[c].result) - 1) :
                GreaterEq(call[c].result[i].similarity,
                          call[c].result[i + 1].similarity)

\* two results, the later note before the earlier one
TwoRankedResults ==
    \E c \in Calls :
        /\ Returned(c) /\ Len(call[c].result) = 2
        /\ call[c].result[1].note.id = "n2" /\ call[c].result[2].note.id = "n1"
        /\ Greater(call[c].result[1].similarity, call[c].result[2].similarity)

\* getAllNotes or a view has settled and no request of it on the database
\* failed
ViewSettled ==
    /\ view.pc = "done"
    /\ DatabaseUpSince(view.at)

\* C9: whatever logins and logouts happen while it runs, getAllNotes
\* returns only notes of the user signed in when it returns, and returns
\* the empty list, without throwing, when nobody is signed in (stated for
\* the runs in which no request on the database fails)
GetAllNotesFollowsSession ==
    (ViewSettled /\ view.op = "getAllNotes") =>
        /\ ~view.threw
        /\ \A i \in 1..Len(view.result) : view.result[i].userId = view.settledAs
        /\ view.settledAs = NoUser => view.result = <<>>

\* C10: with nobody signed in, searchNotes and every view return the empty
\* list and do not throw (stated for the runs in which nobody logs in and
\* no request on the database fails)
NoUserNoResults ==
    /\ (ViewSettled /\ view.op # "getAllNotes" /\ view.caller = NoUser
            /\ "session" \notin EventsSince(view.at)) =>
           (~view.threw /\ view.result = <<>>)
    /\ \A c \in Calls :
           (call[c].pc = "done" /\ call[c].caller = NoUser /\ SameSession(c)
               /\ DatabaseUpSince(call[c].at)) =>
              (~call[c].threw /\ call[c].result = <<>>)

\* the steps of an invocation: the event loop runs the continuation of
\* every await once its promise settles
CallStep(c) ==
    \/ QueryEmbedded(c)
    \/ GetCurrentUser(c)
    \/ ReadNotes(c)
    \/ GetAllEmbeddings(c)
    \/ NoteEmbedded(c)
    \/ SaveEmbedding(c)

FairSpec == Spec /\ \A c \in Calls : WF_vars(CallStep(c))

\* C3: every searchNotes invocation eventually settles, with a list or an
\* error, whatever the endpoint and the database do
SearchTerminates ==
    \A c \in Calls : (call[c].pc # "idle") ~> (call[c].pc = "done")

\* the exits of searchNotes through optimizedTextBasedSearch
LexicalExits == {"catch", "noEmbeddings"}

Consecutive(c) ==
    /\ call[c].pc = "done"
    /\ call[c].before.has
    /\ ~call[c].before.val.threw
    /\ "corpus" \notin EventsSince(call[c].before.val.at)
    /\ ~call[c].swept

\* the second invocation returns the list of the first and asks the
\* endpoint for nothing
Agrees(c) ==
    /\ ~call[c].threw
    /\ call[c].result = call[c].before.val.result
    /\ call[c].providerCalls = 0

Quiet(c) ==
    /\ SameSession(c)
    /\ "corpus" \notin EventsSince(call[c].at)
    /\ DatabaseUpSince(call[c].at)

\* C6: when the first scoring pass meets only stored vectors of another
\* length than the query's, the invocation repairs once, after which
\* every note of the user has a stored vector of the query's length, and
\* returns the ranking of the retried pass
LegacyStoreRepairedOnce ==
    \A c \in Calls :
        (call[c].legacy /\ Quiet(c)) =>
            /\ call[c].repairs = 1
            /\ call[c].pc = "done" =>
                   LET notes == userNotes(noteStore, call[c].caller)
                       queryEmbedding ==
                           embeddingCache[EmbeddingKey(call[c].query)].val
                   IN  /\ ~call[c].threw
                       /\ call[c].exit = "ranked"
                       /\ \A i \in 1..Len(notes) :
                              /\ embStore[notes[i]].has
                              /\ embStore[notes[i]].val.len = queryEmbedding.len
                       /\ call[c].result =
                              rankResults(scoreNotes(notes, queryEmbedding, embStore),
                                          call[c].limit)

\* a repaired store and a ranking that found notes
RepairedAndRanked ==
    \E c \in Calls :
        /\ call[c].pc = "done" /\ call[c].legacy /\ Quiet(c)
        /\ call[c].repairs = 1 /\ call[c].result # <<>>

(***************************************************************************)
(* Properties of the Search component                                      *)
(***************************************************************************)
\* C11: a search whose timer fires before its response fails with the
\* timeout error and shows no results, and its response, when it comes,
\* changes nothing of that (as long as no other search sets the state)
TimedOutSearchStaysFailed ==
    \A h \in Handlers :
        (ui.search[h].pc \in {"timedOut", "late"} /\ ui.writer = h) =>
            /\ ui.error = TimeoutError
            /\ ui.results = <<>>
            /\ ~ui.loading

\* the response came after the timeout of the search that set the state last
LateResponseIgnored ==
    \E h \in Handlers : ui.search[h].pc = "late" /\ ui.writer = h

\* no SEARCH_NOTES message of the Search component is without its response
AllResponsesArrived ==
    /\ ui.newest # "none"
    /\ \A h \in Handlers : ui.search[h].pc \notin {"racing", "timedOut"}

\* C28: once the responses of all searches have arrived, the results on
\* display are those of the search started last: the response of an older
\* search never replaces them
NewestSearchShown == AllResponsesArrived => ui.shown = "newest"

(***************************************************************************)
(* Properties of getRelatedNotes                                           *)
(***************************************************************************)
RelatedSettled == view.pc = "done" /\ view.op = "getRelatedNotes"

\* the target note was not stored at any moment of the invocation
TargetAbsent == view.noteId \notin noteStore /\ "corpus" \notin EventsSince(view.at)

\* C12: getRelatedNotes for a note without a stored embedding, or for a
\* note that does not exist, returns the empty list and does not throw
RelatedOfUnembeddedIsEmpty ==
    (RelatedSettled /\ (TargetAbsent \/ ~embStore[view.noteId].has)) =>
        view.result = <<>> /\ ~view.threw

\* a stored note of the caller without an embedding was asked for, no
\* request failed, and the caller has other notes a lexical search matches
RelatedOfUnembeddedAsked ==
    /\ RelatedSettled
    /\ events = <<>>
    /\ view.noteId \in noteStore
    /\ Note(view.noteId).userId = view.caller
    /\ ~embStore[view.noteId].has
    /\ textMatches(userNotes(noteStore, view.caller), CHOOSE q \in Queries : TRUE) # <<>>

(***************************************************************************)
(* Properties of the scoring pass and of the repair                        *)
(***************************************************************************)
\* the step of searchNotes that calls regenerateEmbeddings
RepairInvoked(c) == call[c].pc = "embs" /\ call'[c].phase = "repair"

\* C13: searchNotes starts the repair only in a pass that compared at least
\* one note and found the stored vector of every compared note of another
\* length than the query's
RepairOnlyWhenAllMismatch ==
    [][\A c \in Calls :
          RepairInvoked(c) =>
              onlyMismatches(call[c].notes, call[c].queryEmbedding.val, embStore)]_vars

\* the notes whose stored vector, when there is one, has the length of the
\* reference vector
sameLengthNotes(notes, reference, embeddings) ==
    SelectSeq(notes, LAMBDA id :
        embeddings[id].has => embeddings[id].val.len = reference.len)

\* C14: getRelatedNotes skips a note whose stored vector has another length
\* than the target's and returns the ranking of the remaining notes
RelatedSkipsMismatchOnItsOwn ==
    (/\ RelatedSettled
     /\ events = <<>>
     /\ view.caller # NoUser
     /\ embStore[view.noteId].has) =>
        view.result =
            rankResults(
                relatedResults(
                    sameLengthNotes(userNotes(noteStore, view.caller),
                                    embStore[view.noteId].val, embStore),
                    view.noteId, embStore[view.noteId].val, embStore),
                view.limit)

\* the loop of regenerateEmbeddings after a note: the next note, or after
\* the last one the return to searchNotes; nothing is thrown
RegenerationGoesOn(c) ==
    LET rest == Tail(call[c].pending)
    IN  /\ ~call'[c].threw
        /\ IF rest # <<>>
           THEN call'[c].pc = "regen" /\ call'[c].pending = rest
           ELSE call'[c].pc \in {"embed", "user", "done"} /\ call'[c].phase # "repair"

\* the records after the step of a note: the note's record is the new
\* vector when the step succeeded, every other record is as it was
RecordsAfter(c, succeeded) ==
    LET id == Head(call[c].pending)
    IN  embStore' = IF succeeded THEN [embStore EXCEPT ![id] = call[c].newEmbedding]
                    ELSE embStore

\* regenerateEmbeddings takes the notes getAllNotes gives, and none when
\* getAllNotes fails
RegenerationTakesTheNotesRead(c) ==
    (call[c].pc = "read" /\ call[c].phase = "repair" /\ call'[c] # call[c]) =>
        /\ ~call'[c].threw
        /\ LET notes == userNotes(noteStore, call[c].currentUser)
           IN  IF readsSucceed /\ notes # <<>>
               THEN call'[c].pc = "regen" /\ call'[c].pending = notes
               ELSE call'[c].phase # "repair"

EmbedStepAfterFailure(c) ==
    call[c].pc = "embed" /\ call'[c] # call[c] /\ ~answered'

NoEmbeddingRecords == \A id \in NoteIds : ~embStore[id].has

\* C17: when no embedding record is stored, searchNotes ends in the text
\* search, and, undisturbed, returns what the text search computes for
\* (query, limit) on the caller's notes
NoRecordsGoesLexical ==
    \A c \in Calls :
        (call[c].pc = "done" /\ NoEmbeddingRecords) =>
            /\ call[c].exit \in LexicalExits
            /\ Quiet(c) =>
                  /\ call[c].exit = "noEmbeddings"
                  /\ ~call[c].threw
                  /\ call[c].result =
                        rankResults(textMatches(userNotes(noteStore, call[c].caller),
                                                call[c].query),
                                    call[c].limit)

\* a signed-in caller got the text search's matches with no record stored
LexicalResultWithoutRecords ==
    \E c \in Calls :
        /\ call[c].pc = "done" /\ NoEmbeddingRecords /\ Quiet(c)
        /\ call[c].caller # NoUser
        /\ call[c].result # <<>>

\* records are stored, but none for a note of the signed-in caller
OnlyForeignRecords(c) ==
    /\ call[c].caller # NoUser
    /\ ~NoEmbeddingRecords
    /\ \A id \in noteStore : Note(id).userId = call[c].caller => ~embStore[id].has

\* C18: when the stored records belong to deleted notes or to notes of
\* other users only, searchNotes returns what the text search computes on
\* the caller's notes, and the Result Cache holds no empty list for the query
ForeignRecordsGoLexical ==
    \A c \in Calls :
        (call[c].pc = "done" /\ Quiet(c) /\ OnlyForeignRecords(c)) =>
            /\ call[c].result =
                  rankResults(textMatches(userNotes(noteStore, call[c].caller),
                                          call[c].query),
                              call[c].limit)
            /\ searchCache[CacheKey(call[c].query, call[c].limit)] # Some(<<>>)

\* C19: an entry comes into the Result Cache only in the step in which an
\* invocation returns the ranking of the semantic path, under the key of
\* that invocation and with that ranking as its value; an invocation that
\* ends in the text search adds none
OnlyRankedResultsCached ==
    [][\A k \in CacheKeys :
          (searchCache'[k].has /\ searchCache'[k] # searchCache[k]) =>
              \E c \in Calls :
                  /\ call[c].pc = "embs"
                  /\ call'[c].pc = "done" /\ call'[c].exit = "ranked"
                  /\ k = CacheKey(call'[c].query, call'[c].limit)
                  /\ searchCache'[k] = Some(call'[c].result)]_vars

\* an invocation ended in the text search with matches and the Result
\* Cache has no entry for its query
LexicalResultNotCached ==
    \E c \in Calls :
        /\ call[c].pc = "done" /\ ~call[c].threw
        /\ call[c].exit \in LexicalExits
        /\ call[c].result # <<>>
        /\ ~searchCache[CacheKey(call[c].query, call[c].limit)].has

(***************************************************************************)
(* Properties of cleanupCache                                              *)
(***************************************************************************)
\* an entry of one of the caches is gone after the step
EntryEvicted ==
    \/ \E k \in CacheKeys : searchCache[k].has /\ ~searchCache'[k].has
    \/ \E k \in EmbeddingKeys : embeddingCache[k].has /\ ~embeddingCache'[k].has

\* C20: an entry leaves a cache, or the time of the last cleanup changes,
\* only in a step taken more than CACHE_DURATION after the last cleanup,
\* and that step leaves both caches empty and the time of the last cleanup
\* at the present time
CleanupIsWholeAndTimed ==
    [][(EntryEvicted \/ lastCacheCleanup' # lastCacheCleanup) =>
          /\ now - lastCacheCleanup > CACHE_DURATION
          /\ \A k \in CacheKeys : ~searchCache'[k].has
          /\ \A k \in EmbeddingKeys : ~embeddingCache'[k].has
          /\ lastCacheCleanup' = now]_vars

\* the second invocation cleaned the caches, which held the query's
\* embedding, and asks the endpoint again
CachesCleaned ==
    \E c \in Calls :
        /\ searches = 2
        /\ call[c].pc = "embed" /\ call[c].swept
        /\ lastCacheCleanup = now
        /\ \A k \in EmbeddingKeys : ~embeddingCache[k].has

wellFormed(records) == SelectSeq(records, LAMBDA record : ~searchTextThrows(record))

\* C22: the text search does not throw on a record without tags: it skips
\* the record and returns the ranking of the other records
MalformedNoteSkipped ==
    pure.op = "optimizedTextBasedSearch" =>
        /\ ~pure.threw
        /\ pure.result =
              optimizedTextBasedSearch(pure.query, pure.limit,
                                       recordIds(wellFormed(pure.records)))

\* C23: every term the text search scores is non-empty, longer than 2
\* characters and no stop word, after lowercasing and stripping
ScoredTermsAreFiltered ==
    pure.op = "preprocessQuery" =>
        \A i \in 1..Len(pure.words) :
            /\ pure.words[i] # <<>>
            /\ Len(pure.words[i]) > 2
            /\ pure.words[i] \notin stopWords

\* a query was scored that has no term left
EmptyQueryScored == pure.op = "calculateTextSimilarity" /\ pure.words = <<>>

\* C24 as stated: a query without terms gives every document the score 0,
\* and no document is kept
EmptyQueryScoresZero ==
    EmptyQueryScored => (pure.score.n = 0 /\ pure.score.d > 0 /\ ~pure.kept)

\* C24, amended: a query without terms gives every document the score NaN
\* (0 / 0), which is not above the floor, and no document is kept
EmptyQueryScoresNaN ==
    EmptyQueryScored => (IsNaN(pure.score) /\ ~pure.kept)

\* a query of stop words only was scored on the text of a note
StopWordQueryScored ==
    /\ EmptyQueryScored
    /\ pure.query = <<"t", "h", "e">>
    /\ pure.text = noteSearchText(Note("n2"))

\* C25: the score of a document reaches 1.0 only when every term of the
\* query is a substring of the document's text
FullScoreOnlyByExactMatches ==
    (/\ pure.op = "calculateTextSimilarity"
     /\ GreaterEq(pure.score, [n |-> 1, d |-> 1])) =>
        \A i \in 1..Len(pure.words) : includes(pure.text, pure.words[i])

\* C26: the text search keeps every note whose score is greater than 0
PositiveScoreKept ==
    (/\ pure.op = "calculateTextSimilarity"
     /\ pure.score.d > 0 /\ pure.score.n > 0) =>
        pure.kept

(***************************************************************************)
(* Properties of the cosine similarity                                     *)
(***************************************************************************)
\* every component of the vector is 0
ZeroMagnitude(v) == ~v.nan /\ SumSq(v.nz) = 0

\* C27: the cosine similarity of vectors of different lengths throws and
\* gives no number; of vectors of equal length one of which has magnitude 0
\* it is 0
MismatchThrowsZeroMagnitudeGivesZero ==
    pure.op = "optimizedCosineSimilarity" =>
        /\ pure.vecA.len # pure.vecB.len => pure.threw
        /\ (pure.vecA.len = pure.vecB.len
               /\ (ZeroMagnitude(pure.vecA) \/ ZeroMagnitude(pure.vecB))) =>
              (~pure.threw /\ pure.score.n = 0 /\ pure.score.d > 0)

\* a vector of 128 components was compared with a legacy vector of 64
MismatchCompared ==
    /\ pure.op = "optimizedCosineSimilarity"
    /\ pure.vecA.len = EMBEDDING_DIM /\ pure.vecB.len = LegacyLen
    /\ pure.threw

(***************************************************************************)
(* Properties of sendRuntimeMessage                                        *)
(***************************************************************************)
\* C29: sendRuntimeMessage makes at most retries + 1 attempts, none after
\* an error that mentions the invalidated extension context, and ends by
\* returning a response without an error field or by throwing the error of
\* its last attempt
SendEndsWithPlainResponseOrLastError ==
    /\ msg.attempts <= msg.retries + 1
    /\ msg.invalidated => msg.pc = "threw"
    /\ msg.pc = "returned" => ~msg.response.hasError
    /\ msg.pc = "threw" => msg.thrown = msg.lastError

(***************************************************************************)
(* Properties of login                                                     *)
(***************************************************************************)
\* the record of an email is removed from the loginAttempts store
AttemptsCleared(e) == auth.attempts[e].has /\ ~auth'.attempts[e].has

\* login l records its success for email e
SuccessRecorded(l, e) ==
    /\ auth.login[l].pc = "record" /\ auth.login[l].email = e
    /\ auth'.login[l].pc = "session"

\* C30: login never succeeds for an email that is locked out (five or more
\* recorded failures, the last less than LOCKOUT_DURATION ago): it returns
\* RATE_LIMITED without comparing the password; and only a successful login
\* clears the recorded attempts
LockedOutLoginNeverSucceeds ==
    /\ [](\A l \in Logins :
             /\ auth.login[l].locked =>
                   (auth.login[l].code = "RATE_LIMITED" /\ ~auth.login[l].verified)
             /\ ~auth.login[l].lockedAtSuccess)
    /\ [][\A e \in Emails :
             AttemptsCleared(e) => \E l \in Logins : SuccessRecorded(l, e)]_vars

====
